---- MODULE Spec2Model ----
(***************************************************************************)
(* The ETL workflow orchestrator of AIMagna: run_orchestration and         *)
(* run_orchestration_from_gcs (orchestrator_agent/main.py), the run        *)
(* record kept by StateStore and the approval documents kept by            *)
(* HITLStateStore (core_tools/state_store.py), the subscriber fan-out of   *)
(* WebSocketManager (nl_agent/websocket_manager.py), the polling approval  *)
(* wait (hitl_agent/main.py) and the background worker of the              *)
(* start-workflow endpoints (nl_agent/main.py).                            *)
(*                                                                         *)
(* One orchestration is modelled as a straight-line program of             *)
(* instructions (TryProgram, ExceptProgram, FinallyProgram) executed one   *)
(* instruction per step; pc is the position of the worker thread.          *)
(* The configuration of a run (mode, caller, environment) is an input      *)
(* fixed in Init; what a collaborator call, a subscriber send, a Firestore *)
(* write or a reviewer does is chosen step by step.                        *)
(*                                                                         *)
(* The join paths of the transform agent (transform_agent/main.py) are     *)
(* operators computed as the code computes them; PathSpec applies          *)
(* find_join_path_bfs to every bounded foreign-key graph and JoinSpec      *)
(* runs the join-set resolution of run_transform on it.                    *)
(***************************************************************************)
EXTENDS Integers, Sequences, FiniteSets, TLC

\* ------------------------------------------------------------------ bounds
MaxTables == 2
MaxMappings == 2
MaxPolls == 2
MaxDrops == 1
MaxEntities == 3
MaxForeignKeys == 3

\* --------------------------------------------------------------- constants
poll_interval == 2

\* the approval timeout (3600 s in the source) scaled to MaxPolls polls
timeout == MaxPolls * poll_interval

NoError == <<>>

Modes == {"local", "gcs"}

Callers == {"api", "cli"}

\* str(e) of the exception a collaborator of the given stage raises
ErrorOf(stage) == <<"error", stage>>

\* the target table of mapping candidate m
TargetOf(m) == m % 2

TargetTables == { TargetOf(m) : m \in 0..1 }

\* ------------------------------------------------------------ the programs
Ins(op, type, step, status, progress) == [op |-> op, type |-> type, step |-> step, status |-> status, progress |-> progress]

StepStart(step) == Ins("step_start", "", step, "", 0)

Bcast(step, status, progress) == Ins("broadcast", "workflow_update", step, status, progress)

Upd(step, progress, status) == Ins("update_state", "", step, status, progress)

\* a stage of the shape: step_start, broadcast started, update_state
\* started, the collaborator call, broadcast completed, update_state completed
Stage(step, op, p0, p1) == << StepStart(step), Bcast(step, "started", p0), Upd(step, p0, "started"), Ins(op, "", step, "", 0), Bcast(step, "completed", p1), Upd(step, p1, "completed") >>

DownloadPart == Stage("download", "call", 2, 5)

HitlPart(hitl) == IF hitl THEN << StepStart("hitl"), Bcast("hitl", "waiting", 50), Upd("hitl", 50, "waiting"), Ins("store_hitl_mappings", "", "hitl", "", 0), Ins("run_hitl", "", "hitl", "", 0), Bcast("hitl", "completed", 55), Upd("hitl", 55, "completed") >> ELSE << StepStart("hitl"), Ins("auto_approve", "", "hitl", "", 0), Bcast("hitl", "completed", 55), Upd("hitl", 55, "completed") >>

PublishPart == << StepStart("publish"), Bcast("publish", "completed", 97) >>

CompletePart == << Ins("broadcast", "workflow_complete", "completed", "success", 100), Ins("mark_run_complete", "", "completed", "completed", 100) >>

\* variant of the try block that maps before it stages
TryProgramMapperFirst(m, hitl) == (IF m = "gcs" THEN DownloadPart ELSE << >>) \o Stage("profiler", "call", IF m = "gcs" THEN 8 ELSE 5, 15) \o Stage("mapper", "call", 35, 45) \o Stage("staging", "staging", 20, 30) \o HitlPart(hitl) \o Stage("create_tables", "call", 60, 65) \o Stage("transform", "call", 70, 75) \o Stage("execute", "execute", 80, 90) \o Stage("validator", "call", 92, 95) \o PublishPart \o Stage("feedback", "call_noncritical", 98, 99) \o CompletePart

TryProgram(m, hitl) == (IF m = "gcs" THEN DownloadPart ELSE << >>) \o Stage("profiler", "call", IF m = "gcs" THEN 8 ELSE 5, 15) \o Stage("staging", "staging", 20, 30) \o Stage("mapper", "call", 35, 45) \o HitlPart(hitl) \o Stage("create_tables", "call", 60, 65) \o Stage("transform", "call", 70, 75) \o Stage("execute", "execute", 80, 90) \o Stage("validator", "call", 92, 95) \o PublishPart \o Stage("feedback", "call_noncritical", 98, 99) \o CompletePart

ErrorEventProgress == 0

\* variant of the except block that broadcasts the error but leaves the
\* run record alone
ExceptProgramNoMark == << Ins("broadcast", "workflow_error", "error", "failed", ErrorEventProgress) >>

ExceptProgram == << Ins("broadcast", "workflow_error", "error", "failed", ErrorEventProgress), Ins("mark_run_failed", "", "", "failed", 0) >>

FinallyProgram(m) == << StepStart("cleanup"), Bcast("cleanup", "started", 100), Ins("delete_tables", "", "cleanup", "", 0) >> \o (IF m = "gcs" THEN << Ins("rmtree", "", "cleanup", "", 0) >> ELSE << >>) \o << Bcast("cleanup", "completed", 100) >>

\* ------------------------------------------------------------------- state
VARIABLES mode, caller, envOk, clientsOk, enable_hitl, plan, pc, exc, failedAt, started, record, emitted, calls, drops, lastUpdateOk, source_tables_info, staged_tables, registered, candidates, hitlDocs, lost_approvals, hitl_phase, elapsed_time, approved_mappings, transform_sql, executed_count, feedback_failed, temp_dir, deleteIssued, deleteFailed, rmtreeIssued, cleanupRuns, raisedToCaller, schema_file, validation_results, adj_list, load, bfs, join, statements, mapper, suggestion, bands, validation, profile, grouping, session, call, history, executions

vars == << mode, caller, envOk, clientsOk, enable_hitl, plan, pc, exc, failedAt, started, record, emitted, calls, drops, lastUpdateOk, source_tables_info, staged_tables, registered, candidates, hitlDocs, lost_approvals, hitl_phase, elapsed_time, approved_mappings, transform_sql, executed_count, feedback_failed, temp_dir, deleteIssued, deleteFailed, rmtreeIssued, cleanupRuns, raisedToCaller, schema_file, validation_results, adj_list, load, bfs, join, statements, mapper, suggestion, bands, validation, profile, grouping, session, call, history, executions >>

\* the variables of the side channel and of the staged resources, by group
ctlVars == << mode, caller, envOk, clientsOk, enable_hitl >>

stageVars == << source_tables_info, staged_tables, registered, schema_file >>

hitlVars == << candidates, hitlDocs, lost_approvals, hitl_phase, elapsed_time, approved_mappings >>

execVars == << transform_sql, executed_count, plan, validation_results >>

cleanVars == << temp_dir, deleteIssued, deleteFailed, rmtreeIssued >>

storeVars == << record, calls, drops, lastUpdateOk >>

\* the foreign-key graph of the source schema and how its loading ended
graphVars == << adj_list, load >>

\* the graph, the last call of find_join_path_bfs, the join-set resolution
\* of the current target table and the kinds of the statements in transform_sql
joinVars == << graphVars, bfs, join, statements >>

\* the two mapping engines: run_mapper and suggest_column_mappings
mapVars == << mapper, suggestion >>

\* the last call of validate_confidence_threshold and the run of run_validator
checkVars == << bands, validation >>

\* everything the orchestrator's own steps leave alone
\* the session state of the agent's tools, the last tool call with what it
\* submitted to BigQuery, and what the tools have done for each pair
sessionVars == << session, call, history >>

\* the profiler's loop over the entities and what run_transform makes of
\* it, the statements of run_transform by target table, and the executions
\* started for one run with the external tables of the dataset
extraVars == << profile, grouping, sessionVars, executions >>

toolVars == << joinVars, mapVars, checkVars, extraVars >>

websocket_manager == caller = "api"

state_store == caller = "api"

hitl_store == caller = "api"

At(blk, i) == [blk |-> blk, i |-> i]

TryLocalHitl == TryProgram("local", TRUE)

TryLocalAuto == TryProgram("local", FALSE)

TryGcsHitl == TryProgram("gcs", TRUE)

TryGcsAuto == TryProgram("gcs", FALSE)

FinallyLocal == FinallyProgram("local")

FinallyGcs == FinallyProgram("gcs")

\* the block of instructions the worker is in
Program ==
    IF pc.blk = "try"
    THEN (IF mode = "gcs" THEN (IF enable_hitl THEN TryGcsHitl ELSE TryGcsAuto) ELSE (IF enable_hitl THEN TryLocalHitl ELSE TryLocalAuto))
    ELSE IF pc.blk = "except" THEN ExceptProgram
    ELSE IF pc.blk = "finally" THEN (IF mode = "gcs" THEN FinallyGcs ELSE FinallyLocal)
    ELSE << >>

Cur == IF pc.i \in 1..Len(Program) THEN Program[pc.i] ELSE Ins("end", "", "", "", 0)

\* ------------------------------------------- join paths (transform agent)
\* the tables of the source schema, in the order of its "entities" list
Tables == 1..MaxEntities

\* the name of a table that a foreign key references although the schema
\* declares no entity of that name
Undeclared == 0

\* a foreign key: the entity that declares it and the table it references
\* (a table referencing itself adds only edges that the visited set skips)
FkPairs == { fk \in Tables \X (Tables \cup {Undeclared}) : fk[1] # fk[2] }

\* the foreign keys of a schema in the order load_source_schema_with_fks
\* meets them: entity by entity, each entity's keys in their listed order
Schemas == UNION { { fks \in [1..k -> FkPairs] : \A i \in 1..(k - 1) : fks[i][1] <= fks[i + 1][1] } : k \in 0..MaxForeignKeys }

\* the columns of a foreign key: fk["column"] is the column of the entity
\* that points to the referenced table (a_id in B.a_id -> A.id), and
\* fk["references"].split('.')[1] the key column of the referenced table
\* (column names are pairs: << t, "id" >> is the column t_id, and
\* << 0, "id" >> the column id)
FkColumn(fk) == << fk[2], "id" >>

ReferencesColumn(fk) == << 0, "id" >>

\* the edge appended under the declaring entity
ForwardEdge(fk) == [target |-> fk[2], column |-> FkColumn(fk), references_column |-> ReferencesColumn(fk)]

\* variant of the backward edge that keeps the columns in the forward order
BackwardEdgeUnswapped(fk) == [target |-> fk[1], column |-> FkColumn(fk), references_column |-> ReferencesColumn(fk)]

\* the edge appended under the referenced table
BackwardEdge(fk) == [target |-> fk[1], column |-> ReferencesColumn(fk), references_column |-> FkColumn(fk)]

\* the value of adj_list while no graph is there
NoGraph == << >>

\* variant of the edge loop that skips a reference to an undeclared table
RECURSIVE AddForeignKeysSkipping(_, _)
AddForeignKeysSkipping(adj, fks) ==
    IF fks = << >> THEN [raised |-> FALSE, adj_list |-> adj]
    ELSE IF Head(fks)[2] \notin DOMAIN adj THEN AddForeignKeysSkipping(adj, Tail(fks))
    ELSE LET forward == [adj EXCEPT ![Head(fks)[1]] = Append(@, ForwardEdge(Head(fks)))]
         IN  AddForeignKeysSkipping([forward EXCEPT ![Head(fks)[2]] = Append(@, BackwardEdge(Head(fks)))], Tail(fks))

\* the two loops over the entities and their foreign keys: both edges are
\* appended; adj_list[referenced_table] raises KeyError when the referenced
\* table is no entity
RECURSIVE AddForeignKeys(_, _)
AddForeignKeys(adj, fks) ==
    IF fks = << >> THEN [raised |-> FALSE, adj_list |-> adj]
    ELSE LET entity == Head(fks)[1]
             referenced_table == Head(fks)[2]
             forward == [adj EXCEPT ![entity] = Append(@, ForwardEdge(Head(fks)))]
         IN  IF referenced_table \notin DOMAIN adj
             THEN [raised |-> TRUE, adj_list |-> NoGraph]
             ELSE AddForeignKeys([forward EXCEPT ![referenced_table] = Append(@, BackwardEdge(Head(fks)))], Tail(fks))

\* adj_list[t] is the list of the edges of t, in insertion order
load_source_schema_with_fks(fks) == AddForeignKeys([t \in Tables |-> << >>], fks)

\* the value None that find_join_path_bfs returns when the queue runs empty
NoPath == << >>

\* variant of the new path that keeps only the start table and the neighbor
NewPathFromStart(path, neighbor) == << path[1], neighbor >>

\* new_path = list(path); new_path.append(neighbor)
NewPath(path, neighbor) == Append(path, neighbor)

\* variant of the edge loop that stops at the first neighbor not yet visited
RECURSIVE VisitFirstEdge(_, _, _, _)
VisitFirstEdge(edges, path, queue, visited) ==
    IF edges = << >> THEN [queue |-> queue, visited |-> visited]
    ELSE IF Head(edges).target \notin visited
         THEN [queue |-> Append(queue, << Head(edges).target, NewPath(path, Head(edges).target) >>), visited |-> visited \cup {Head(edges).target}]
         ELSE VisitFirstEdge(Tail(edges), path, queue, visited)

\* for edge in adj_list.get(current_table, []): every neighbor not yet
\* visited is marked visited and queued with its path
RECURSIVE VisitEdges(_, _, _, _)
VisitEdges(edges, path, queue, visited) ==
    IF edges = << >> THEN [queue |-> queue, visited |-> visited]
    ELSE IF Head(edges).target \notin visited
         THEN VisitEdges(Tail(edges), path, Append(queue, << Head(edges).target, NewPath(path, Head(edges).target) >>), visited \cup {Head(edges).target})
         ELSE VisitEdges(Tail(edges), path, queue, visited)

\* while queue: popleft, return the path at the end table, else visit the edges
RECURSIVE BfsLoop(_, _, _, _)
BfsLoop(queue, visited, end_table, adj) ==
    IF queue = << >> THEN NoPath
    ELSE LET current_table == Head(queue)[1]
             path == Head(queue)[2]
             after == VisitEdges(adj[current_table], path, Tail(queue), visited)
         IN  IF current_table = end_table THEN path
             ELSE BfsLoop(after.queue, after.visited, end_table, adj)

find_join_path_bfs(start_table, end_table, adj) == BfsLoop(<< << start_table, << start_table >> >> >>, {start_table}, end_table, adj)

\* the values of the join variables while no schema is loaded
Unread == [status |-> "unread", undeclared |-> FALSE]

NoCall == [start_table |-> 0, end_table |-> 0, path |-> NoPath]

NoJoin == [phase |-> "none", source_tables |-> {}, base_table |-> 0, from_clause |-> {}, tables_to_join |-> {}, joined_tables |-> {}, round |-> {}, path_found |-> FALSE, join_clauses |-> << >>, passes |-> 0]

\* variant of the candidates that keeps every path found, whatever its length
FoundPaths(joined_tables, end_table, adj) == { find_join_path_bfs(start_table, end_table, adj) : start_table \in joined_tables } \ {NoPath}

\* the shortest_path candidates of one end table: the paths from the joined
\* tables that are no longer than any other; which of them the loop over the
\* set joined_tables meets first is left open
ShortestPaths(joined_tables, end_table, adj) ==
    LET found == { find_join_path_bfs(start_table, end_table, adj) : start_table \in joined_tables } \ {NoPath}
    IN  { path \in found : \A other \in found : Len(path) <= Len(other) }

\* " JOIN t2 ON t1.column = t2.references_column" for the first edge of t1
\* whose target is t2
JoinClause(t1, t2, adj) ==
    LET first == CHOOSE i \in 1..Len(adj[t1]) : adj[t1][i].target = t2 /\ \A j \in 1..(i - 1) : adj[t1][j].target # t2
    IN  [join |-> t2, left |-> << t1, adj[t1][first].column >>, right |-> << t2, adj[t1][first].references_column >>]

\* the JOIN clauses of a path: one per consecutive pair of tables
PathClauses(path, adj) == [i \in 1..(Len(path) - 1) |-> JoinClause(path[i], path[i + 1], adj)]

\* variant of the update of joined_tables that adds the end table only
PathTablesEndOnly(path) == { path[Len(path)] }

\* joined_tables.update(shortest_path)
PathTables(path) == { path[i] : i \in 1..Len(path) }

\* ------------------------------------------------------- run_mapper
\* the columns of the source schema and of the target schema
MaxSourceColumns == 2

MaxTargetColumns == 3

\* cosine similarities, in hundredths
Scores == {50, 85, 90, 95}

similarity_threshold == 90

\* source_column_info[i] and target_column_info[j], counted from 1
SourceColumn(i) == << "source", i >>

TargetColumn(j) == << "target", j >>

\* the declared column sets of a schema of n source and m target columns
SourceColumns(n) == { SourceColumn(i) : i \in 1..n }

TargetColumns(m) == { TargetColumn(j) : j \in 1..m }

\* best_match_score = -1, best_match_index = -1 (index 0 here, as positions
\* count from 1)
NoBestMatch == [best_match_score |-> -100, best_match_index |-> 0]

\* for j, target_embedding in enumerate(target_embeddings):
\*     if similarity > best_match_score: ...
RECURSIVE BestMatchLoop(_, _, _)
BestMatchLoop(similarities, j, best) ==
    IF j > Len(similarities) THEN best
    ELSE IF similarities[j] > best.best_match_score
         THEN BestMatchLoop(similarities, j + 1, [best_match_score |-> similarities[j], best_match_index |-> j])
         ELSE BestMatchLoop(similarities, j + 1, best)

\* variant of the threshold test that lets a score equal to the threshold pass
AboveThresholdInclusive(score) == score >= similarity_threshold

\* if best_match_score > similarity_threshold:
AboveThreshold(score) == score > similarity_threshold

\* variant of the candidate that looks the target up by the source's position
CandidateBySourceIndex(i, best) == [source_column |-> SourceColumn(i), target_column |-> TargetColumn(i), confidence |-> best.best_match_score]

\* the candidate appended for source column i
Candidate(i, best) == [source_column |-> SourceColumn(i), target_column |-> TargetColumn(best.best_match_index), confidence |-> best.best_match_score]

\* one pass of the loop over the source embeddings
MatchColumn(i, similarities, mapping_candidates) ==
    LET best == BestMatchLoop(similarities, 1, NoBestMatch)
    IN IF AboveThreshold(best.best_match_score)
       THEN Append(mapping_candidates, Candidate(i, best))
       ELSE mapping_candidates

NoMapper == [status |-> "none", source_columns |-> 0, target_columns |-> 0, i |-> 0, similarities |-> << >>, mapping_candidates |-> << >>]

\* ------------------------------------------- suggest_column_mappings
\* the columns of the source table and of the target table
MaxSuggestColumns == 2

\* how a source column's name compares with the target column's name
NameMatches == {"exact", "partial", "similar", "none"}

\* a source column seen from a target column: name match and type equality
Comparisons == [name : NameMatches, same_type : BOOLEAN]

\* source_column of an unmapped target column (None)
NoColumn == << >>

\* confidence of a name match, in hundredths
NameConfidence(name) == CASE name = "exact" -> 95 [] name = "partial" -> 75 [] name = "similar" -> 60

\* if source_col["type"] != target_col["type"]: confidence -= 0.1
TypeAdjusted(confidence, same_type) == IF same_type THEN confidence ELSE confidence - 10

\* best_match = None, best_confidence = 0.0
NoBestSource == [best_match |-> 0, best_confidence |-> 0]

\* for source_name, source_col in source_cols.items(): ...
RECURSIVE BestSourceLoop(_, _, _)
BestSourceLoop(row, k, best) ==
    IF k > Len(row) THEN best
    ELSE IF row[k].name = "none" THEN BestSourceLoop(row, k + 1, best)
    ELSE LET confidence == TypeAdjusted(NameConfidence(row[k].name), row[k].same_type)
         IN IF confidence > best.best_confidence
            THEN BestSourceLoop(row, k + 1, [best_match |-> k, best_confidence |-> confidence])
            ELSE BestSourceLoop(row, k + 1, best)

\* the mapping appended for target column t
SuggestedMapping(t, row) ==
    LET best == BestSourceLoop(row, 1, NoBestSource)
    IN [target_column |-> TargetColumn(t),
        source_column |-> IF best.best_match # 0 THEN SourceColumn(best.best_match) ELSE NoColumn,
        confidence |-> best.best_confidence,
        status |-> IF best.best_match # 0 THEN "suggested" ELSE "unmapped"]

\* the hallucinated columns of a mapping list, in the order they are found
RECURSIVE Hallucinated(_, _, _)
Hallucinated(mappings, source_columns, target_columns) ==
    IF mappings = << >> THEN << >>
    ELSE LET mapping == Head(mappings)
             source_col == mapping.source_column
             target_col == mapping.target_column
         IN (IF source_col # NoColumn /\ source_col \notin source_columns THEN << [type |-> "source", column |-> source_col] >> ELSE << >>)
            \o (IF target_col # NoColumn /\ target_col \notin target_columns THEN << [type |-> "target", column |-> target_col] >> ELSE << >>)
            \o Hallucinated(Tail(mappings), source_columns, target_columns)

validate_mapping_output(mappings, source_columns, target_columns) ==
    LET hallucinated == Hallucinated(mappings, source_columns, target_columns)
    IN [is_valid |-> hallucinated = << >>, hallucinated |-> hallucinated]

NoSuggestion == [status |-> "none", source_cols |-> 0, target_cols |-> 0, mappings |-> << >>, hallucinated |-> << >>]

\* neither mapping engine has been called
MapIdle == mapper = NoMapper /\ suggestion = NoSuggestion

\* ------------------------------------- validate_confidence_threshold
\* the mappings handed to validate_confidence_threshold
MaxBandMappings == 2

\* confidences of the mappings, in hundredths
Confidences == {40, 50, 60, 70, 75, 80, 95}

\* the defaults of the parameters, in hundredths
min_confidence == 50

require_approval_below == 70

\* the list a mapping of this confidence is appended to
Band(conf) ==
    IF conf >= require_approval_below THEN "auto_approved"
    ELSE IF conf >= min_confidence THEN "requires_review"
    ELSE "rejected"

InBand(mappings, band) == SelectSeq(mappings, LAMBDA mapping : Band(mapping.confidence) = band)

RECURSIVE SumConfidences(_)
SumConfidences(mappings) == IF mappings = << >> THEN 0 ELSE Head(mappings).confidence + SumConfidences(Tail(mappings))

\* overall_confidence (0.0, or sum / len) < 0.6
LowOverallConfidence(mappings) == mappings = << >> \/ SumConfidences(mappings) < 60 * Len(mappings)

Recommendation(mappings) ==
    IF Len(InBand(mappings, "rejected")) > 0 THEN "BLOCK"
    ELSE IF Len(InBand(mappings, "requires_review")) > Len(InBand(mappings, "auto_approved")) THEN "REVIEW"
    ELSE IF LowOverallConfidence(mappings) THEN "CAUTION"
    ELSE "PROCEED"

validate_confidence_threshold(mappings) ==
    [status |-> "returned",
     mappings |-> mappings,
     auto_approved |-> InBand(mappings, "auto_approved"),
     requires_review |-> InBand(mappings, "requires_review"),
     rejected |-> InBand(mappings, "rejected"),
     recommendation |-> Recommendation(mappings)]

NoBands == [status |-> "none", mappings |-> << >>, auto_approved |-> << >>, requires_review |-> << >>, rejected |-> << >>, recommendation |-> ""]

\* ---------------------------------------------------- run_validator
\* the target tables that run_validator loops over
MaxValidatedTables == 2

\* the fields of a target table's schema
MaxColumns == 2

\* the duplicate_count that a uniqueness query can report
MaxDuplicates == 2

\* a field of a table: whether its name ends in _id or _key, and the
\* number of its values that occur more than once
Fields == [is_key : BOOLEAN, duplicate_count : 0..MaxDuplicates]

Schemata == UNION { [1..k -> Fields] : k \in 0..MaxColumns }

\* uniqueness_violations: the duplicate counts of the key fields, in order
RECURSIVE UniquenessViolations(_)
UniquenessViolations(schema) ==
    IF schema = << >> THEN << >>
    ELSE (IF Head(schema).is_key THEN << Head(schema).duplicate_count >> ELSE << >>) \o UniquenessViolations(Tail(schema))

\* DQTool.run_checks on a table of this schema (an empty schema: the table
\* was not found); row_count and null_counts are only logged by the caller
run_checks(schema) ==
    IF schema = << >> THEN [kind |-> "error", uniqueness_violations |-> << >>]
    ELSE [kind |-> "metrics", uniqueness_violations |-> UniquenessViolations(schema)]

\* for col, count in dq_metrics["uniqueness_violations"].items():
\*     if count > 0: table_violations += count
RECURSIVE TableViolations(_)
TableViolations(uniqueness_violations) ==
    IF uniqueness_violations = << >> THEN 0
    ELSE (IF Head(uniqueness_violations) > 0 THEN Head(uniqueness_violations) ELSE 0) + TableViolations(Tail(uniqueness_violations))

Max(a, b) == IF a >= b THEN a ELSE b

\* variant of the confidence without the floor
ConfidenceUnfloored(overall_status, total_violations) ==
    IF overall_status = "success" THEN 100 ELSE 100 - total_violations * 10

\* confidence = 1.0 if overall_status == "success"
\*              else max(0.3, 1.0 - (total_violations * 0.1)), in hundredths
Confidence(overall_status, total_violations) ==
    IF overall_status = "success" THEN 100 ELSE Max(30, 100 - total_violations * 10)

\* all_dq_metrics[table_name] of a table whose checks raised
ChecksRaised == [kind |-> "raised", uniqueness_violations |-> << >>]

NoMetrics == [kind |-> "none", uniqueness_violations |-> << >>]

NoValidation == [status |-> "none", t |-> 0, overall_status |-> "success", tables_passed |-> 0, tables_failed |-> 0, total_violations |-> 0, dq_metrics |-> NoMetrics, confidence |-> 0]

\* neither check has been called
CheckIdle == bands = NoBands /\ validation = NoValidation

\* ----------------------------------- two executions of one run
\* the executions the start-workflow endpoint starts for one run_id
MaxExecutions == 2

Executions == 1..MaxExecutions

\* the tables of source_tables_info, in the order of the staging loop
StagedTables == 1..MaxTables

\* external_table_id = f"{table_name}_ext_{run_id}": the same id in every
\* execution of the run
ExternalTableId(table_name, execution) == table_name

\* the execute stage of an execution has not finished
Unfinished == {"staging", "creating", "staged", "executing"}

\* no execution started, no external table in the dataset (owner 0)
NoExecutions == [phase |-> [e \in Executions |-> "idle"], registered |-> [e \in Executions |-> {}], cleaned |-> [e \in Executions |-> {}], external |-> [t \in StagedTables |-> 0], actor |-> 0]

\* ------------------------------------------ the tools of the agent
\* the tokens secrets.token_hex(4) can issue, 0 for no token
MaxTokens == 2

\* the tool calls of a session
MaxCalls == 6

\* table names as the sequences of their parts between "_to_": "a" and
\* "a_to_b" in the source schema, "c" and "b_to_c" in the target schema;
\* the pairs the calls name are a -> c, a -> b_to_c and a_to_b -> c
Pairs == { << << "a" >>, << "c" >> >>, << << "a" >>, << "b", "c" >> >>, << << "a", "b" >>, << "c" >> >> }

\* mapping_key = f"{source_table}_to_{target_table}"
MappingKey(source_table, target_table) == source_table \o target_table

Keys == { MappingKey(pair[1], pair[2]) : pair \in Pairs }

\* source_table, target_table = mapping_key.split("_to_", 1)
SplitKey(mapping_key) == << << Head(mapping_key) >>, Tail(mapping_key) >>

\* approve_mappings called without source_table or target_table
NoPair == << << >>, << >> >>

\* the pairs a tool call can name or infer
AllPairs == Pairs \cup { SplitKey(key) : key \in Keys }

NoKey == << >>

Decisions == {"approve", "reject", "later"}

\* normalized decision: the reject words are looked for first
FinalDecision(decision) == IF decision = "reject" THEN "rejected" ELSE IF decision = "approve" THEN "approved" ELSE "invalid"

NoSession == [suggested_mappings |-> {}, last_suggested_mapping_key |-> NoKey, approved_mappings |-> {}, rejected_mappings |-> {}, generated_sql |-> {}, execution_tokens |-> [key \in Keys |-> 0]]

\* tool_context.state["suggested_mappings"][key] = result and the last key;
\* found: the schemas are in the session, both tables are in them
suggest_column_mappings(state, source_table, target_table, found) ==
    IF ~found THEN [state |-> state, status |-> "error", submitted |-> "none"]
    ELSE [state |-> [state EXCEPT !.suggested_mappings = @ \cup {MappingKey(source_table, target_table)}, !.last_suggested_mapping_key = MappingKey(source_table, target_table)],
          status |-> "suggested", submitted |-> "none"]

\* rejected_mappings[mapping_key] = mapping_data
Reject(state, mapping_key) == [state EXCEPT !.rejected_mappings = @ \cup {mapping_key}]

\* approved_mappings[mapping_key] = mapping_data
Approve(state, mapping_key) == [state EXCEPT !.approved_mappings = @ \cup {mapping_key}]

\* the pair approve_mappings works on: the named one, or the one inferred
\* from the last suggested key
ApprovedPair(state, pair) == IF pair # NoPair THEN pair ELSE IF state.last_suggested_mapping_key = NoKey THEN NoPair ELSE SplitKey(state.last_suggested_mapping_key)

approve_mappings(state, pair, decision) ==
    LET mapping_key == IF pair # NoPair THEN MappingKey(pair[1], pair[2]) ELSE state.last_suggested_mapping_key
    IN  IF mapping_key = NoKey THEN [state |-> state, status |-> "error", submitted |-> "none"]
        ELSE IF FinalDecision(decision) = "invalid" THEN [state |-> state, status |-> "error", submitted |-> "none"]
        ELSE IF mapping_key \notin state.suggested_mappings THEN [state |-> state, status |-> "error", submitted |-> "none"]
        ELSE IF FinalDecision(decision) = "approved" THEN [state |-> Approve(state, mapping_key), status |-> "approved", submitted |-> "none"]
        ELSE [state |-> Reject(state, mapping_key), status |-> "rejected", submitted |-> "none"]

\* valid: validate_sql_query accepts the generated statement
generate_transformation_sql(state, source_table, target_table, valid) ==
    LET mapping_key == MappingKey(source_table, target_table)
    IN  IF mapping_key \notin state.approved_mappings THEN [state |-> state, status |-> "no_approved_mappings", submitted |-> "none"]
        ELSE IF ~valid THEN [state |-> state, status |-> "error", submitted |-> "none"]
        ELSE [state |-> [state EXCEPT !.generated_sql = @ \cup {mapping_key}], status |-> "generated", submitted |-> "none"]

\* what BigQuery does with the job: client.query raises, query_job.result()
\* raises, or neither
JobOutcomes == {"ok", "query_raises", "result_raises"}

\* query_job = client.query(sql, job_config=QueryJobConfig(dry_run=dry_run))
\* comes first: the job is submitted whatever the token is
Submit(dry_run) == IF dry_run THEN "dry_run" ELSE "query"

\* token: what secrets.token_hex(4) returns in a dry run
execute_transformation(state, source_table, target_table, dry_run, execution_token, token, outcome) ==
    LET mapping_key == MappingKey(source_table, target_table)
        expected == state.execution_tokens[mapping_key]
    IN  IF mapping_key \notin state.generated_sql THEN [state |-> state, status |-> "error", submitted |-> "none"]
        ELSE IF outcome = "query_raises" THEN [state |-> state, status |-> "error", submitted |-> "none"]
        ELSE IF dry_run THEN [state |-> [state EXCEPT !.execution_tokens[mapping_key] = token], status |-> "validated", submitted |-> Submit(dry_run)]
        ELSE IF expected = 0 THEN [state |-> state, status |-> "blocked", submitted |-> Submit(dry_run)]
        ELSE IF execution_token # expected THEN [state |-> state, status |-> "blocked", submitted |-> Submit(dry_run)]
        ELSE [state |-> [state EXCEPT !.execution_tokens[mapping_key] = 0],
              status |-> IF outcome = "result_raises" THEN "error" ELSE "executed",
              submitted |-> Submit(dry_run)]

NoToolCall == [tool |-> "none", pair |-> NoPair, dry_run |-> FALSE, execution_token |-> 0, status |-> "none", submitted |-> "none"]

\* the steps of the way to a confirmed execution, in their order
Steps == << "suggest", "approve", "generate", "dry_run", "execute" >>

\* the place of a step in that order
StepOf(tool) == CHOOSE k \in 1..Len(Steps) : Steps[k] = tool

\* what the tools have done: the number of calls, for each pair how many
\* steps of the way have been made for it in their order, and the last
\* decision approve_mappings recorded for it
NoHistory == [calls |-> 0, ran |-> [pair \in AllPairs |-> 0], decision |-> [pair \in AllPairs |-> "none"]]

\* --------------------------------- run_transform: the INSERT statements
\* the columns of the target tables
MaxTargetTableColumns == 2

\* "table.column" of an approved mapping, split at the dot: the source
\* columns are columns of profiled tables
MappedSourceColumns == { << t, "c" >> : t \in Tables }

MappedTargetColumns == { << tt, c >> : tt \in TargetTables, c \in 1..MaxTargetTableColumns }

ApprovedMappings == [source_column : MappedSourceColumns, target_column : MappedTargetColumns]

\* target_tables[target_table_name].append(mapping), the dictionary as the
\* sequence of its items in insertion order
RECURSIVE GroupByTarget(_, _)
GroupByTarget(mappings, target_tables) ==
    IF mappings = << >> THEN target_tables
    ELSE LET mapping == Head(mappings)
             target_table_name == mapping.target_column[1]
             known == { k \in 1..Len(target_tables) : target_tables[k].name = target_table_name }
         IN IF known = {}
            THEN GroupByTarget(Tail(mappings), Append(target_tables, [name |-> target_table_name, mappings |-> << mapping >>]))
            ELSE GroupByTarget(Tail(mappings), [k \in 1..Len(target_tables) |-> IF k \in known THEN [target_tables[k] EXCEPT !.mappings = Append(@, mapping)] ELSE target_tables[k]])

\* "<external table>.<source column> AS <target column>" for m in mappings
SelectClauses(mappings) == [k \in 1..Len(mappings) |-> [expr |-> mappings[k].source_column, as |-> mappings[k].target_column[2]]]

\* variant of the INSERT column list in the opposite order
InsertColumnsReversed(mappings) == [k \in 1..Len(mappings) |-> mappings[Len(mappings) + 1 - k].target_column[2]]

\* the INSERT column list: m['target_column'].split('.')[1] for m in mappings
InsertColumns(mappings) == [k \in 1..Len(mappings) |-> mappings[k].target_column[2]]

\* the statement of a target table (its FROM clause is what JoinSpec resolves)
InsertStatement(item) == [target_table |-> item.name, insert_columns |-> InsertColumns(item.mappings), select_clauses |-> SelectClauses(item.mappings)]

NoGrouping == [status |-> "none", approved_mappings |-> << >>, target_tables |-> << >>, transform_sql |-> << >>]

\* ----------------------------------------------------- run_profiler
\* what run_profiler finds at the CSV path of an entity: a file that
\* read_csv reads, no file, or a file on which read_csv raises
Files == {"readable", "missing", "unreadable"}

\* profile_results["tables"] with one more table, or tables_skipped + 1
ProfileTable(p, table_name, file) ==
    IF file = "readable"
    THEN [p EXCEPT !.i = table_name, !.tables = Append(p.tables, table_name)]
    ELSE [p EXCEPT !.i = table_name, !.tables_skipped = p.tables_skipped + 1]

\* the keys of table_to_external_map: the tables of source_tables_info
table_to_external_map(tables) == { tables[k] : k \in 1..Len(tables) }

\* the lookups t1_qualified = table_to_external_map[t1] and
\* t2_qualified = table_to_external_map[t2] along a join path
QualifyPath(path, external) ==
    IF path = NoPath THEN "cross_join"
    ELSE IF \A k \in 1..Len(path) : path[k] \in external THEN "joined"
    ELSE "KeyError"

NoProfile == [status |-> "none", i |-> 0, tables |-> << >>, tables_skipped |-> 0, transform |-> "none"]

ExtraIdle == profile = NoProfile /\ grouping = NoGrouping /\ session = NoSession /\ call = NoToolCall /\ history = NoHistory /\ executions = NoExecutions

\* ------------------------------------------------------------------ Init
\* the statement of the execute stage at which run_query raises (0: none);
\* BigQuery's answer to each statement is fixed once the statements exist
Plans == 0..2

\* the run record written by create_run when the run is registered
\* validation_results before run_validator has returned, and the fields of
\* the run record that no write has set
NoResults == "none"

CreateRun == [status |-> "pending", current_step |-> "initialized", progress |-> 0, error |-> NoError, step_data_validator |-> NoResults, results |-> NoResults]

NoDocs == [m \in {} |-> "pending"]

\* the state of a run that has not started
Idle ==
    /\ pc = At("env", 0)
    /\ exc = NoError
    /\ failedAt = "none"
    /\ started = << >>
    /\ record = CreateRun
    /\ emitted = << >>
    /\ calls = [complete |-> 0, failed |-> 0]
    /\ drops = 0
    /\ lastUpdateOk = TRUE
    /\ source_tables_info = 0
    /\ staged_tables = 0
    /\ registered = {}
    /\ candidates = {}
    /\ hitlDocs = NoDocs
    /\ lost_approvals = {}
    /\ hitl_phase = "idle"
    /\ elapsed_time = 0
    /\ approved_mappings = {}
    /\ transform_sql = 0
    /\ executed_count = 0
    /\ feedback_failed = FALSE
    /\ temp_dir = "none"
    /\ deleteIssued = {}
    /\ deleteFailed = {}
    /\ rmtreeIssued = FALSE
    /\ cleanupRuns = 0
    /\ raisedToCaller = FALSE
    /\ schema_file = "unread"
    /\ plan = 0
    /\ validation_results = NoResults

Init ==
    /\ mode \in Modes
    /\ caller \in Callers
    /\ envOk \in BOOLEAN
    /\ clientsOk \in BOOLEAN
    /\ enable_hitl \in BOOLEAN
    /\ envOk = FALSE => (clientsOk = TRUE /\ enable_hitl = FALSE)
    /\ clientsOk = FALSE => enable_hitl = FALSE
    /\ Idle
    /\ adj_list = NoGraph
    /\ load = Unread
    /\ bfs = NoCall
    /\ join = NoJoin
    /\ statements = << >>
    /\ MapIdle
    /\ CheckIdle
    /\ ExtraIdle

\* ------------------------------------------------- control flow of the run
\* where the exception e goes once it leaves run_orchestration
Leave(e) == IF e # NoError /\ caller = "api" THEN At("wrapper", 1) ELSE At("done", 0)

\* variant of Continue without the finally clause: the raise that ends the
\* except block leaves the function at once
ContinueSkipFinally ==
    /\ pc' = IF pc.i < Len(Program) THEN At(pc.blk, pc.i + 1)
             ELSE IF pc.blk = "try" THEN At("finally", 1)
             ELSE Leave(exc)
    /\ raisedToCaller' = IF pc.blk \in {"except", "finally"} /\ pc.i = Len(Program) THEN exc # NoError ELSE raisedToCaller
    /\ UNCHANGED << exc, failedAt >>

\* the current instruction completes: the next instruction, the finally
\* block after the try or the except block, the caller after the finally block
Continue ==
    /\ pc' = IF pc.i < Len(Program) THEN At(pc.blk, pc.i + 1)
             ELSE IF pc.blk \in {"try", "except"} THEN At("finally", 1)
             ELSE Leave(exc)
    /\ raisedToCaller' = IF pc.blk = "finally" /\ pc.i = Len(Program) THEN exc # NoError ELSE raisedToCaller
    /\ UNCHANGED << exc, failedAt >>

\* the current instruction raises e: to the except block from the try block,
\* to the finally block from the except block, to the caller from the finally block
Raise(e, stage) ==
    /\ exc' = e
    /\ failedAt' = IF pc.blk = "try" THEN stage ELSE failedAt
    /\ pc' = IF pc.blk = "try" THEN At("except", 1)
             ELSE IF pc.blk = "except" THEN At("finally", 1)
             ELSE Leave(e)
    /\ raisedToCaller' = IF pc.blk = "finally" THEN TRUE ELSE raisedToCaller

Control(result, e, stage) == IF result = "raise" THEN Raise(e, stage) ELSE Continue

Event(chan, ins) == [chan |-> chan, type |-> ins.type, step |-> ins.step, status |-> ins.status, progress |-> ins.progress]

\* ----------------------------------------------------- start of the worker
LoadConfig ==
    /\ pc = At("env", 0)
    /\ pc' = IF envOk THEN At("clients", 0) ELSE At("done", 0)
    /\ UNCHANGED << ctlVars, toolVars, feedback_failed, exc, failedAt, raisedToCaller, started, cleanupRuns, emitted, storeVars, stageVars, hitlVars, execVars, cleanVars >>

InitClients ==
    /\ pc = At("clients", 0)
    /\ IF clientsOk
       THEN /\ pc' = At("try", 1)
            /\ UNCHANGED << exc, raisedToCaller >>
       ELSE /\ exc' = ErrorOf("clients")
            /\ pc' = Leave(ErrorOf("clients"))
            /\ raisedToCaller' = TRUE
    /\ UNCHANGED << ctlVars, toolVars, feedback_failed, failedAt, started, cleanupRuns, emitted, storeVars, stageVars, hitlVars, execVars, cleanVars >>

\* --------------------------------------------------------- the side channel
LogStep ==
    /\ Cur.op = "step_start"
    /\ started' = Append(started, Cur.step)
    /\ cleanupRuns' = IF Cur.step = "cleanup" THEN cleanupRuns + 1 ELSE cleanupRuns
    /\ Continue
    /\ UNCHANGED << ctlVars, toolVars, feedback_failed, emitted, storeVars, stageVars, hitlVars, execVars, cleanVars >>

\* the try/except of the broadcast helper: whatever the send did, go on
BroadcastHelper(outcome) == "continue"

\* what asyncio.run(websocket_manager.broadcast(...)) does: every send
\* completes or there is no subscriber ("ok"), a send fails and the manager
\* drops that connection ("send_fails"), a send never completes ("hang"), or
\* the call itself raises ("raise")
SendOutcomes == {"ok", "raise", "send_fails", "hang"}

Broadcast ==
    /\ Cur.op = "broadcast"
    /\ IF websocket_manager
       THEN /\ \E outcome \in SendOutcomes :
                 /\ IF outcome = "hang"
                    THEN /\ pc' = At("blocked", 0)
                         /\ UNCHANGED << exc, failedAt, raisedToCaller >>
                    ELSE Control(BroadcastHelper(outcome), ErrorOf("broadcast"), Cur.step)
            /\ emitted' = Append(emitted, Event("ws", Cur))
       ELSE /\ Continue
            /\ UNCHANGED emitted
    /\ UNCHANGED << ctlVars, toolVars, feedback_failed, started, cleanupRuns, storeVars, stageVars, hitlVars, execVars, cleanVars >>

\* the outcomes of a Firestore operation: it succeeds (TRUE) or raises
\* (FALSE); at most MaxDrops operations of a run raise
Deliveries == IF drops < MaxDrops THEN BOOLEAN ELSE {TRUE}

\* the try/except inside every StateStore / HITLStateStore write method
StoreMethod(delivered) == IF delivered THEN "written" ELSE "swallowed"

\* the try/except of the update_state helper
UpdateStateHelper(result) == "continue"

UpdateWorkflowStep(rec, step, progress, status, data) ==
    [rec EXCEPT !.current_step = step, !.progress = progress, !.status = IF status # "" THEN status ELSE @,
                !.step_data_validator = IF data # NoResults /\ step = "validator" THEN data ELSE @]

MarkRunCompleteDoc(rec, results) == [rec EXCEPT !.status = "completed", !.current_step = "completed", !.progress = 100, !.results = IF results # NoResults THEN results ELSE @]

\* variant of mark_run_failed that also rewrites the step fields
MarkRunFailedDocStep(rec, error) == [rec EXCEPT !.status = "failed", !.error = error, !.current_step = "failed", !.progress = 0]

MarkRunFailedDoc(rec, error) == [rec EXCEPT !.status = "failed", !.error = error]

\* the data argument of update_state: the validation results after the
\* validator stage (the counts passed after other stages are not modelled)
StepData(step, status) == IF step = "validator" /\ status = "completed" THEN validation_results ELSE NoResults

UpdateState ==
    /\ Cur.op = "update_state"
    /\ IF state_store
       THEN \E d \in Deliveries :
              /\ record' = IF d THEN UpdateWorkflowStep(record, Cur.step, Cur.progress, Cur.status, StepData(Cur.step, Cur.status)) ELSE record
              /\ drops' = IF d THEN drops ELSE drops + 1
              /\ lastUpdateOk' = d
              /\ emitted' = Append(emitted, Event("store", Cur))
              /\ Control(UpdateStateHelper(StoreMethod(d)), ErrorOf("state_store"), Cur.step)
              /\ UNCHANGED calls
       ELSE /\ Continue
            /\ UNCHANGED << storeVars, emitted >>
    /\ UNCHANGED << ctlVars, toolVars, feedback_failed, started, cleanupRuns, stageVars, hitlVars, execVars, cleanVars >>

MarkRunComplete ==
    /\ Cur.op = "mark_run_complete"
    /\ IF state_store
       THEN \E d \in Deliveries :
              /\ record' = IF d THEN MarkRunCompleteDoc(record, validation_results) ELSE record
              /\ drops' = IF d THEN drops ELSE drops + 1
              /\ calls' = [calls EXCEPT !.complete = @ + 1]
              /\ emitted' = Append(emitted, Event("store", Cur))
              /\ Control(StoreMethod(d), ErrorOf("state_store"), "complete")
              /\ UNCHANGED lastUpdateOk
       ELSE /\ Continue
            /\ UNCHANGED << storeVars, emitted >>
    /\ UNCHANGED << ctlVars, toolVars, feedback_failed, started, cleanupRuns, stageVars, hitlVars, execVars, cleanVars >>

MarkRunFailed ==
    /\ Cur.op = "mark_run_failed"
    /\ IF state_store
       THEN \E d \in Deliveries :
              /\ record' = IF d THEN MarkRunFailedDoc(record, exc) ELSE record
              /\ drops' = IF d THEN drops ELSE drops + 1
              /\ calls' = [calls EXCEPT !.failed = @ + 1]
              /\ Control(StoreMethod(d), ErrorOf("state_store"), "failed")
              /\ UNCHANGED lastUpdateOk
       ELSE /\ Continue
            /\ UNCHANGED storeVars
    /\ UNCHANGED << ctlVars, toolVars, feedback_failed, started, cleanupRuns, emitted, stageVars, hitlVars, execVars, cleanVars >>

\* ---------------------------------------------------------------- the stages
\* a collaborator call returns or raises
CallResults == {"continue", "raise"}

\* mkdtemp, makedirs and then download_folder: a failure of mkdtemp leaves
\* temp_dir unset, a later failure leaves the directory behind
Download ==
    /\ Cur.op = "call" /\ Cur.step = "download"
    /\ \E r \in CallResults, made \in BOOLEAN :
         /\ r = "continue" => made
         /\ temp_dir' = IF made THEN "exists" ELSE "none"
         /\ Control(r, ErrorOf("download"), "download")
    /\ UNCHANGED << ctlVars, toolVars, started, cleanupRuns, emitted, storeVars, stageVars, hitlVars, execVars, feedback_failed, deleteIssued, deleteFailed, rmtreeIssued >>

\* run_profiler opens schema.json first (FileNotFoundError is re-raised), then
\* profiles the tables it lists
RunProfiler ==
    /\ Cur.op = "call" /\ Cur.step = "profiler"
    /\ \E r \in CallResults, n \in 0..MaxTables, found \in BOOLEAN :
         /\ r = "raise" => n = 0
         /\ r = "continue" => found
         /\ schema_file' = IF found THEN "found" ELSE "missing"
         /\ source_tables_info' = n
         /\ Control(r, ErrorOf("profiler"), "profiler")
    /\ UNCHANGED << ctlVars, toolVars, started, cleanupRuns, emitted, storeVars, staged_tables, registered, hitlVars, execVars, feedback_failed, cleanVars >>

\* one iteration of the staging loop over source_tables_info: upload_file
\* (local mode), table_info["external_table_id"] = ..., create_external_table
StageTable ==
    /\ Cur.op = "staging"
    /\ staged_tables < source_tables_info
    /\ LET t == staged_tables + 1
       IN  \E upload \in CallResults, create \in CallResults :
             /\ mode = "gcs" => upload = "continue"
             /\ upload = "raise" => create = "continue"
             /\ IF upload = "raise"
                THEN /\ Raise(ErrorOf("staging"), "staging")
                     /\ UNCHANGED << registered, staged_tables >>
                ELSE IF create = "raise"
                THEN /\ registered' = registered \cup {t}
                     /\ Raise(ErrorOf("staging"), "staging")
                     /\ UNCHANGED staged_tables
                ELSE /\ registered' = registered \cup {t}
                     /\ staged_tables' = t
                     /\ UNCHANGED << pc, exc, failedAt, raisedToCaller >>
    /\ UNCHANGED << ctlVars, toolVars, started, cleanupRuns, emitted, storeVars, source_tables_info, schema_file, hitlVars, execVars, feedback_failed, cleanVars >>

StagingDone ==
    /\ Cur.op = "staging"
    /\ staged_tables = source_tables_info
    /\ Continue
    /\ UNCHANGED << ctlVars, toolVars, started, cleanupRuns, emitted, storeVars, stageVars, hitlVars, execVars, feedback_failed, cleanVars >>

RunMapper ==
    /\ Cur.op = "call" /\ Cur.step = "mapper"
    /\ \E r \in CallResults, n \in 0..MaxMappings :
         /\ r = "raise" => n = 0
         /\ candidates' = 0..(n - 1)
         /\ Control(r, ErrorOf("mapper"), "mapper")
    /\ UNCHANGED << ctlVars, toolVars, started, cleanupRuns, emitted, storeVars, stageVars, hitlDocs, lost_approvals, hitl_phase, elapsed_time, approved_mappings, execVars, feedback_failed, cleanVars >>

CreateTables ==
    /\ Cur.op = "call" /\ Cur.step = "create_tables"
    /\ \E r \in CallResults : Control(r, ErrorOf("create_tables"), "create_tables")
    /\ UNCHANGED << ctlVars, toolVars, started, cleanupRuns, emitted, storeVars, stageVars, hitlVars, execVars, feedback_failed, cleanVars >>

\* one statement per target table that has an approved mapping
StatementCount(approved) == Cardinality({ TargetOf(m) : m \in approved })

RunTransform ==
    /\ Cur.op = "call" /\ Cur.step = "transform"
    /\ \E r \in CallResults, q \in Plans :
         /\ r = "raise" => q = 0
         /\ transform_sql' = IF r = "raise" THEN transform_sql ELSE StatementCount(approved_mappings)
         /\ plan' = q
         /\ Control(r, ErrorOf("transform"), "transform")
    /\ UNCHANGED << ctlVars, toolVars, started, cleanupRuns, emitted, storeVars, stageVars, hitlVars, executed_count, validation_results, feedback_failed, cleanVars >>

ExecuteProgress(idx, n) == 80 + ((idx * 10) \div n)

\* one iteration of the execute loop: run_query (it raises at the statement
\* the plan names) and the "running" broadcast
ExecuteStatement ==
    /\ Cur.op = "execute"
    /\ executed_count < transform_sql
    /\ LET idx == executed_count + 1
       IN  IF plan = idx
           THEN /\ Raise(ErrorOf("execute"), "execute")
                /\ UNCHANGED << executed_count, emitted >>
           ELSE /\ executed_count' = idx
                /\ IF websocket_manager
                   THEN /\ \E outcome \in SendOutcomes :
                             /\ IF outcome = "hang"
                                THEN /\ pc' = At("blocked", 0)
                                     /\ UNCHANGED << exc, failedAt, raisedToCaller >>
                                ELSE IF BroadcastHelper(outcome) = "raise"
                                THEN Raise(ErrorOf("broadcast"), "execute")
                                ELSE UNCHANGED << pc, exc, failedAt, raisedToCaller >>
                        /\ emitted' = Append(emitted, [chan |-> "ws", type |-> "workflow_update", step |-> "execute", status |-> "running", progress |-> ExecuteProgress(idx, transform_sql)])
                   ELSE UNCHANGED << pc, exc, failedAt, raisedToCaller, emitted >>
    /\ UNCHANGED << ctlVars, toolVars, started, cleanupRuns, storeVars, stageVars, hitlVars, transform_sql, plan, validation_results, feedback_failed, cleanVars >>

ExecuteDone ==
    /\ Cur.op = "execute"
    /\ executed_count = transform_sql
    /\ Continue
    /\ UNCHANGED << ctlVars, toolVars, started, cleanupRuns, emitted, storeVars, stageVars, hitlVars, execVars, feedback_failed, cleanVars >>

\* the "status" of the dictionary that run_validator returns
ValidationStatuses == {"success", "failure"}

\* variant of the validator stage that raises on a failure status
ValidatorHandlerStrict(result, status) == IF status = "failure" THEN "raise" ELSE result

\* the try/except around run_validator: re-raises what run_validator
\* raises and does not look at the status of what it returns
ValidatorHandler(result, status) == result

\* the validator stage without the content of the dictionary it returns
RunValidator ==
    /\ Cur.op = "call" /\ Cur.step = "validator"
    /\ \E r \in CallResults : Control(r, ErrorOf("validator"), "validator")
    /\ UNCHANGED << ctlVars, toolVars, started, cleanupRuns, emitted, storeVars, stageVars, hitlVars, execVars, feedback_failed, cleanVars >>

\* the validator stage with the status of the dictionary it returns
RunValidatorReport ==
    /\ Cur.op = "call" /\ Cur.step = "validator"
    /\ \E r \in CallResults, status \in ValidationStatuses :
         /\ validation_results' = IF r = "raise" THEN validation_results ELSE status
         /\ Control(ValidatorHandler(r, status), ErrorOf("validator"), "validator")
    /\ UNCHANGED << ctlVars, toolVars, started, cleanupRuns, emitted, storeVars, stageVars, hitlVars, transform_sql, executed_count, plan, feedback_failed, cleanVars >>

\* variant of the feedback stage without its except clause
FeedbackHandlerPropagates(result) == result

\* the except clause around run_feedback: logged, not raised
FeedbackHandler(result) == "continue"

RunFeedback ==
    /\ Cur.op = "call_noncritical"
    /\ \E r \in CallResults :
         /\ feedback_failed' = (r = "raise")
         /\ Control(FeedbackHandler(r), ErrorOf("feedback"), "feedback")
    /\ UNCHANGED << ctlVars, toolVars, started, cleanupRuns, emitted, storeVars, stageVars, hitlVars, execVars, cleanVars >>

\* ------------------------------------------------------- the approval gate
StoreHitlMappings ==
    /\ Cur.op = "store_hitl_mappings"
    /\ IF hitl_store
       THEN \E d \in Deliveries :
              /\ hitlDocs' = IF d THEN [m \in candidates |-> "pending"] ELSE hitlDocs
              /\ drops' = IF d THEN drops ELSE drops + 1
              /\ Control(StoreMethod(d), ErrorOf("hitl_store"), "hitl")
       ELSE /\ Continue
            /\ UNCHANGED << hitlDocs, drops >>
    /\ UNCHANGED << ctlVars, toolVars, feedback_failed, started, cleanupRuns, emitted, record, calls, lastUpdateOk, stageVars, candidates, lost_approvals, hitl_phase, elapsed_time, approved_mappings, execVars, cleanVars >>

\* the outcomes of a query of the approval store: it streams the documents
\* (TRUE) or raises (FALSE)
Reads == Deliveries

\* get_pending_mappings: the stored documents of the run with status
\* pending; the empty list when the query raises
GetPendingMappings(docs, ok) == IF ok THEN { m \in DOMAIN docs : docs[m] = "pending" } ELSE {}

\* variant of get_approved_mappings that returns every reviewed document
GetReviewedMappings(docs, ok) == IF ok THEN { m \in DOMAIN docs : docs[m] # "pending" } ELSE {}

\* get_approved_mappings: the stored documents of the run with status
\* approved; the empty list when the query raises
GetApprovedMappings(docs, ok) == IF ok THEN { m \in DOMAIN docs : docs[m] = "approved" } ELSE {}

AllMappingsReviewed(docs, ok) == GetPendingMappings(docs, ok) = {}

\* run_hitl with no candidate returns the empty list at once
RunHitlEmpty ==
    /\ Cur.op = "run_hitl"
    /\ candidates = {}
    /\ approved_mappings' = {}
    /\ Continue
    /\ UNCHANGED << ctlVars, toolVars, feedback_failed, started, cleanupRuns, emitted, storeVars, stageVars, candidates, hitlDocs, lost_approvals, hitl_phase, elapsed_time, execVars, cleanVars >>

\* variant of the loop condition that admits one more iteration
LoopConditionInclusive(elapsed) == elapsed <= timeout

\* while elapsed_time < timeout
LoopCondition(elapsed) == elapsed < timeout

\* one evaluation of the loop of _wait_for_web_approvals
HitlPoll ==
    /\ Cur.op = "run_hitl"
    /\ hitl_store
    /\ candidates # {}
    /\ hitl_phase \in {"idle", "polling"}
    /\ \E ok \in Reads :
         /\ ~LoopCondition(elapsed_time) => ok
         /\ drops' = IF ok THEN drops ELSE drops + 1
         /\ IF LoopCondition(elapsed_time) /\ ~AllMappingsReviewed(hitlDocs, ok)
            THEN /\ elapsed_time' = elapsed_time + poll_interval
                 /\ hitl_phase' = "polling"
            ELSE /\ hitl_phase' = "retrieving"
                 /\ UNCHANGED elapsed_time
    /\ UNCHANGED << ctlVars, toolVars, feedback_failed, pc, exc, failedAt, raisedToCaller, started, cleanupRuns, emitted, record, calls, lastUpdateOk, stageVars, candidates, hitlDocs, lost_approvals, approved_mappings, execVars, cleanVars >>

\* variant of the timeout check that raises when the timeout has elapsed
TimeoutCheckRaises(elapsed) == IF elapsed >= timeout THEN "raise" ELSE "continue"

\* if elapsed_time >= timeout: two warnings are logged, nothing is raised
TimeoutCheck(elapsed) == "continue"

\* after the loop: the timeout warning, then the approved documents are read
\* and returned; the run reads the documents no more, and hitlDocs, the
\* documents the wait can see, is emptied
HitlRetrieve ==
    /\ Cur.op = "run_hitl"
    /\ hitl_phase = "retrieving"
    /\ \E ok \in Reads :
         /\ approved_mappings' = GetApprovedMappings(hitlDocs, ok)
         /\ drops' = IF ok THEN drops ELSE drops + 1
    /\ hitl_phase' = "done"
    /\ elapsed_time' = 0
    /\ Control(TimeoutCheck(elapsed_time), ErrorOf("hitl"), "hitl")
    /\ hitlDocs' = NoDocs
    /\ UNCHANGED << ctlVars, toolVars, feedback_failed, started, cleanupRuns, emitted, record, calls, lastUpdateOk, stageVars, candidates, lost_approvals, execVars, cleanVars >>

\* _cli_approval: one y/n answer per candidate; input() raises at end of input
CliApproval ==
    /\ Cur.op = "run_hitl"
    /\ ~hitl_store
    /\ candidates # {}
    /\ \E r \in CallResults, S \in SUBSET candidates :
         IF r = "raise"
         THEN /\ S = {}
              /\ Raise(ErrorOf("hitl"), "hitl")
              /\ UNCHANGED approved_mappings
         ELSE /\ approved_mappings' = S
              /\ Continue
    /\ UNCHANGED << lost_approvals, ctlVars, toolVars, feedback_failed, started, cleanupRuns, emitted, storeVars, stageVars, candidates, hitlDocs, hitl_phase, elapsed_time, execVars, cleanVars >>

AutoApprove ==
    /\ Cur.op = "auto_approve"
    /\ approved_mappings' = candidates
    /\ Continue
    /\ UNCHANGED << lost_approvals, ctlVars, toolVars, feedback_failed, started, cleanupRuns, emitted, storeVars, stageVars, candidates, hitlDocs, hitl_phase, elapsed_time, execVars, cleanVars >>

\* the document update of approve_mapping / reject_mapping: it fails (and the
\* failure is swallowed) when the document does not exist
SetMappingStatus(docs, m, status) == IF m \in DOMAIN docs THEN [docs EXCEPT ![m] = status] ELSE docs

\* the approvals that found no document to update: lost_approvals holds the
\* mappings whose latest decision was an approval that the store swallowed
LostApprovals(docs, lost, m, status) ==
    IF m \in DOMAIN docs THEN lost
    ELSE IF status = "approved" THEN lost \cup {m} ELSE lost \ {m}

\* a reviewer posts a decision while the run waits
ApproveMapping(m) ==
    /\ Cur.op = "run_hitl"
    /\ hitl_store
    /\ hitl_phase \in {"idle", "polling", "retrieving"}
    /\ m \in candidates
    /\ hitlDocs' = SetMappingStatus(hitlDocs, m, "approved")
    /\ lost_approvals' = LostApprovals(hitlDocs, lost_approvals, m, "approved")
    /\ UNCHANGED << ctlVars, toolVars, feedback_failed, pc, exc, failedAt, raisedToCaller, started, cleanupRuns, emitted, storeVars, stageVars, candidates, hitl_phase, elapsed_time, approved_mappings, execVars, cleanVars >>

RejectMapping(m) ==
    /\ Cur.op = "run_hitl"
    /\ hitl_store
    /\ hitl_phase \in {"idle", "polling", "retrieving"}
    /\ m \in candidates
    /\ hitlDocs' = SetMappingStatus(hitlDocs, m, "rejected")
    /\ lost_approvals' = LostApprovals(hitlDocs, lost_approvals, m, "rejected")
    /\ UNCHANGED << ctlVars, toolVars, feedback_failed, pc, exc, failedAt, raisedToCaller, started, cleanupRuns, emitted, storeVars, stageVars, candidates, hitl_phase, elapsed_time, approved_mappings, execVars, cleanVars >>

\* ------------------------------------------------------------------ cleanup
\* variant of the cleanup loop without the try/except around delete_table
DeleteHandlerRaises(failed) == IF failed THEN "raise" ELSE "continue"

\* the try/except around delete_table inside the cleanup loop
DeleteHandler(failed) == "continue"

\* one iteration of the cleanup loop over source_tables_info
DeleteTable ==
    /\ Cur.op = "delete_tables"
    /\ registered \ deleteIssued # {}
    /\ LET t == CHOOSE x \in registered \ deleteIssued : \A y \in registered \ deleteIssued : x <= y
       IN  \E failed \in BOOLEAN :
             /\ deleteIssued' = deleteIssued \cup {t}
             /\ deleteFailed' = IF failed THEN deleteFailed \cup {t} ELSE deleteFailed
             /\ IF DeleteHandler(failed) = "raise"
                THEN Raise(ErrorOf("delete_table"), "cleanup")
                ELSE UNCHANGED << pc, exc, failedAt, raisedToCaller >>
    /\ UNCHANGED << ctlVars, toolVars, feedback_failed, started, cleanupRuns, emitted, storeVars, stageVars, hitlVars, execVars, temp_dir, rmtreeIssued >>

DeleteDone ==
    /\ Cur.op = "delete_tables"
    /\ registered \ deleteIssued = {}
    /\ Continue
    /\ UNCHANGED << ctlVars, toolVars, feedback_failed, started, cleanupRuns, emitted, storeVars, stageVars, hitlVars, execVars, cleanVars >>

\* if temp_dir and os.path.exists(temp_dir): shutil.rmtree, failure logged
RemoveTempDir ==
    /\ Cur.op = "rmtree"
    /\ IF temp_dir = "exists"
       THEN /\ rmtreeIssued' = TRUE
            /\ \E ok \in BOOLEAN : temp_dir' = IF ok THEN "removed" ELSE "exists"
       ELSE UNCHANGED << temp_dir, rmtreeIssued >>
    /\ Continue
    /\ UNCHANGED << ctlVars, toolVars, feedback_failed, started, cleanupRuns, emitted, storeVars, stageVars, hitlVars, execVars, deleteIssued, deleteFailed >>

\* --------------------------------------- the worker thread of the endpoints
\* except Exception in run_workflow_thread: mark_run_failed, then broadcast
WrapperMarkFailed ==
    /\ pc = At("wrapper", 1)
    /\ \E d \in Deliveries :
         /\ record' = IF d THEN MarkRunFailedDoc(record, exc) ELSE record
         /\ drops' = IF d THEN drops ELSE drops + 1
    /\ calls' = [calls EXCEPT !.failed = @ + 1]
    /\ pc' = At("wrapper", 2)
    /\ UNCHANGED << ctlVars, toolVars, feedback_failed, exc, failedAt, raisedToCaller, started, cleanupRuns, emitted, lastUpdateOk, stageVars, hitlVars, execVars, cleanVars >>

WrapperBroadcast ==
    /\ pc = At("wrapper", 2)
    /\ \E outcome \in SendOutcomes :
         /\ pc' = IF outcome = "hang" THEN At("blocked", 0) ELSE At("done", 0)
    /\ UNCHANGED << ctlVars, toolVars, feedback_failed, exc, failedAt, raisedToCaller, started, cleanupRuns, emitted, storeVars, stageVars, hitlVars, execVars, cleanVars >>

\* ------------------------------------------------------- the specifications
Worker ==
    \/ LoadConfig
    \/ InitClients
    \/ LogStep
    \/ Broadcast
    \/ UpdateState
    \/ MarkRunComplete
    \/ MarkRunFailed
    \/ Download
    \/ RunProfiler
    \/ StageTable
    \/ StagingDone
    \/ RunMapper
    \/ StoreHitlMappings
    \/ RunHitlEmpty
    \/ HitlPoll
    \/ HitlRetrieve
    \/ CliApproval
    \/ AutoApprove
    \/ CreateTables
    \/ RunTransform
    \/ ExecuteStatement
    \/ ExecuteDone
    \/ RunValidator
    \/ RunFeedback
    \/ DeleteTable
    \/ DeleteDone
    \/ RemoveTempDir
    \/ WrapperMarkFailed
    \/ WrapperBroadcast

Environment ==
    \/ \E m \in 0..(MaxMappings - 1) : ApproveMapping(m)
    \/ \E m \in 0..(MaxMappings - 1) : RejectMapping(m)

Next == Worker \/ Environment

Spec == Init /\ [][Next]_vars

\* the worker thread keeps running while its next instruction can complete
FairSpec == Init /\ [][Next]_vars /\ WF_vars(Worker)

\* ------------------------------------ the run with its validation report
\* a run without the approval gate (ENABLE_HITL is not set)
ReportInit == Init /\ enable_hitl = FALSE

\* the steps of such a run, the validator stage with the returned status
ReportNext ==
    \/ LoadConfig
    \/ InitClients
    \/ LogStep
    \/ Broadcast
    \/ UpdateState
    \/ MarkRunComplete
    \/ MarkRunFailed
    \/ Download
    \/ RunProfiler
    \/ StageTable
    \/ StagingDone
    \/ RunMapper
    \/ AutoApprove
    \/ CreateTables
    \/ RunTransform
    \/ ExecuteStatement
    \/ ExecuteDone
    \/ RunValidatorReport
    \/ RunFeedback
    \/ DeleteTable
    \/ DeleteDone
    \/ RemoveTempDir
    \/ WrapperMarkFailed
    \/ WrapperBroadcast

ReportSpec == ReportInit /\ [][ReportNext]_vars

Done == pc.blk = "done"

\* ------------------------------------- the join paths as a specification
runVars == << ctlVars, pc, exc, failedAt, raisedToCaller, started, cleanupRuns, emitted, feedback_failed, storeVars, stageVars, hitlVars, execVars, cleanVars >>

\* run_transform before it loads the foreign-key graph
PathInit ==
    /\ mode = "local"
    /\ caller = "cli"
    /\ envOk = TRUE
    /\ clientsOk = TRUE
    /\ enable_hitl = FALSE
    /\ Idle
    /\ adj_list = NoGraph
    /\ load = Unread
    /\ bfs = NoCall
    /\ join = NoJoin
    /\ statements = << >>
    /\ MapIdle
    /\ CheckIdle
    /\ ExtraIdle

\* whether some foreign key of the schema references a table that is no entity
HasUndeclaredReference(fks) == \E i \in 1..Len(fks) : fks[i][2] \notin Tables

\* try: adj_list = load_source_schema_with_fks(...) except Exception: raise
LoadSchema ==
    /\ load.status = "unread"
    /\ \E fks \in Schemas :
         LET result == load_source_schema_with_fks(fks)
         IN  /\ adj_list' = result.adj_list
             /\ load' = [status |-> IF result.raised THEN "raised" ELSE "loaded", undeclared |-> HasUndeclaredReference(fks)]
    /\ UNCHANGED << runVars, extraVars, mapVars, checkVars, bfs, join, statements >>

\* one call path = find_join_path_bfs(start_table, end_table, adj_list)
FindJoinPath ==
    /\ load.status = "loaded"
    /\ \E start_table, end_table \in Tables :
         bfs' = [start_table |-> start_table, end_table |-> end_table, path |-> find_join_path_bfs(start_table, end_table, adj_list)]
    /\ UNCHANGED << runVars, extraVars, mapVars, checkVars, graphVars, join, statements >>

PathNext == LoadSchema \/ FindJoinPath

PathSpec == PathInit /\ [][PathNext]_vars

\* ------------------------------- join-set resolution as a specification
JoinInit == PathInit

\* source_tables = list(set(...)); base_table = source_tables[0]: any of the
\* source tables of the target table can come first
StartJoin ==
    /\ load.status = "loaded"
    /\ join.phase = "none"
    /\ \E source_tables \in SUBSET Tables \ {{}} :
         \E base_table \in source_tables :
           join' = [phase |-> IF Cardinality(source_tables) > 1 THEN "resolving" ELSE "done",
                    source_tables |-> source_tables,
                    base_table |-> base_table,
                    from_clause |-> {base_table},
                    tables_to_join |-> source_tables \ {base_table},
                    joined_tables |-> {base_table},
                    round |-> source_tables \ {base_table},
                    path_found |-> FALSE,
                    join_clauses |-> << >>,
                    passes |-> IF Cardinality(source_tables) > 1 THEN 1 ELSE 0]
    /\ UNCHANGED << runVars, extraVars, mapVars, checkVars, graphVars, bfs, statements >>

\* one iteration of "for end_table in list(tables_to_join)": the next table
\* of the snapshot, in the iteration order of the set
JoinTable ==
    /\ join.phase = "resolving"
    /\ \E end_table \in join.round :
         LET shortest == ShortestPaths(join.joined_tables, end_table, adj_list)
         IN  IF shortest # {}
             THEN \E shortest_path \in shortest :
                    join' = [join EXCEPT !.join_clauses = @ \o PathClauses(shortest_path, adj_list),
                                         !.joined_tables = @ \cup PathTables(shortest_path),
                                         !.tables_to_join = @ \ {end_table},
                                         !.path_found = TRUE,
                                         !.round = @ \ {end_table}]
             ELSE join' = [join EXCEPT !.round = @ \ {end_table}]
    /\ UNCHANGED << runVars, extraVars, mapVars, checkVars, graphVars, bfs, statements >>

\* variant of the check after a pass that never leaves the loop
PassJoinedAlways(j) == TRUE

\* "if not path_found: ... break" lets the loop go on after a pass that
\* joined a table
PassJoined(j) == j.path_found

\* the pass joined a table and tables remain: while tables_to_join goes round
NextPass ==
    /\ join.phase = "resolving"
    /\ join.round = {}
    /\ PassJoined(join)
    /\ join.tables_to_join # {}
    /\ join' = [join EXCEPT !.round = join.tables_to_join, !.path_found = FALSE, !.passes = @ + 1]
    /\ UNCHANGED << runVars, extraVars, mapVars, checkVars, graphVars, bfs, statements >>

\* the pass joined a table and none remains: the while loop ends
JoinDone ==
    /\ join.phase = "resolving"
    /\ join.round = {}
    /\ PassJoined(join)
    /\ join.tables_to_join = {}
    /\ join' = [join EXCEPT !.phase = "done"]
    /\ UNCHANGED << runVars, extraVars, mapVars, checkVars, graphVars, bfs, statements >>

\* variant of the fallback that keeps the join clauses built so far
CrossJoinKeepingClauses(j) == [j EXCEPT !.phase = "fallback", !.from_clause = j.source_tables]

\* from_clause = ", ".join(all source tables); join_clauses = ""
CrossJoin(j) == [j EXCEPT !.phase = "fallback", !.from_clause = j.source_tables, !.join_clauses = << >>]

\* if not path_found: the FROM clause lists all source tables, the join
\* clauses are dropped, break
JoinFallback ==
    /\ join.phase = "resolving"
    /\ join.round = {}
    /\ ~PassJoined(join)
    /\ join' = CrossJoin(join)
    /\ UNCHANGED << runVars, extraVars, mapVars, checkVars, graphVars, bfs, statements >>

\* what transform_sql keeps of a statement here: whether it has the FROM
\* clause of the fallback
StatementKind(j) == IF j.phase = "fallback" THEN "cross_join" ELSE "joined"

\* sql = f"... FROM {from_clause}{join_clauses};"; transform_sql.append(sql)
EmitStatement ==
    /\ join.phase \in {"done", "fallback"}
    /\ statements' = Append(statements, StatementKind(join))
    /\ join' = [join EXCEPT !.phase = "emitted"]
    /\ UNCHANGED << runVars, extraVars, mapVars, checkVars, graphVars, bfs >>

JoinNext == LoadSchema \/ StartJoin \/ EmitStatement \/ JoinTable \/ NextPass \/ JoinDone \/ JoinFallback

JoinSpec == JoinInit /\ [][JoinNext]_vars

\* ------------------------- the statements of all target tables
\* for target_table_name, mappings in target_tables.items(): the next
\* target table starts with from_clause = "" and join_clauses = ""
NextTarget ==
    /\ join.phase = "emitted"
    /\ Len(statements) < Cardinality(TargetTables)
    /\ join' = NoJoin
    /\ UNCHANGED << runVars, extraVars, mapVars, checkVars, graphVars, bfs, statements >>

SqlNext == JoinNext \/ NextTarget

SqlSpec == JoinInit /\ [][SqlNext]_vars

\* ------------------------------------------------ the mapping engines
MapInit == PathInit

\* run_mapper is called on the schemas; without source or target columns it
\* returns the empty list at once
StartMapper ==
    /\ MapIdle
    /\ \E n \in 1..MaxSourceColumns, m \in 1..MaxTargetColumns :
         mapper' = [NoMapper EXCEPT !.status = "matching", !.source_columns = n, !.target_columns = m]
    /\ UNCHANGED << runVars, extraVars, joinVars, checkVars, suggestion >>

NoColumns ==
    /\ MapIdle
    /\ \E n \in 0..MaxSourceColumns, m \in 0..MaxTargetColumns :
         /\ n = 0 \/ m = 0
         /\ mapper' = [NoMapper EXCEPT !.status = "returned", !.source_columns = n, !.target_columns = m]
    /\ UNCHANGED << runVars, extraVars, joinVars, checkVars, suggestion >>

\* one pass of the loop over the source embeddings; the similarities of the
\* source column with the target columns are what the embeddings give
MatchSource ==
    /\ mapper.status = "matching"
    /\ mapper.i < mapper.source_columns
    /\ \E similarities \in [1..mapper.target_columns -> Scores] :
         mapper' = [mapper EXCEPT !.i = mapper.i + 1,
                                  !.similarities = similarities,
                                  !.mapping_candidates = MatchColumn(mapper.i + 1, similarities, mapper.mapping_candidates)]
    /\ UNCHANGED << runVars, extraVars, joinVars, checkVars, suggestion >>

\* return mapping_candidates
ReturnCandidates ==
    /\ mapper.status = "matching"
    /\ mapper.i = mapper.source_columns
    /\ mapper' = [mapper EXCEPT !.status = "returned"]
    /\ UNCHANGED << runVars, extraVars, joinVars, checkVars, suggestion >>

\* suggest_column_mappings is called on a source table and a target table
StartSuggest ==
    /\ MapIdle
    /\ \E n \in 1..MaxSuggestColumns, m \in 1..MaxSuggestColumns :
         suggestion' = [NoSuggestion EXCEPT !.status = "suggesting", !.source_cols = n, !.target_cols = m]
    /\ UNCHANGED << runVars, extraVars, joinVars, checkVars, mapper >>

\* if not source_cols / if not target_cols: return {"error": ...}
TableNotFound ==
    /\ MapIdle
    /\ \E n \in 0..MaxSuggestColumns, m \in 0..MaxSuggestColumns :
         /\ n = 0 \/ m = 0
         /\ suggestion' = [NoSuggestion EXCEPT !.status = "error", !.source_cols = n, !.target_cols = m]
    /\ UNCHANGED << runVars, extraVars, joinVars, checkVars, mapper >>

\* one pass of the loop over the target columns
SuggestTarget ==
    /\ suggestion.status = "suggesting"
    /\ Len(suggestion.mappings) < suggestion.target_cols
    /\ \E row \in [1..suggestion.source_cols -> Comparisons] :
         suggestion' = [suggestion EXCEPT !.mappings = Append(suggestion.mappings, SuggestedMapping(Len(suggestion.mappings) + 1, row))]
    /\ UNCHANGED << runVars, extraVars, joinVars, checkVars, mapper >>

\* the guardrail on the finished list
ValidateSuggestion ==
    /\ suggestion.status = "suggesting"
    /\ Len(suggestion.mappings) = suggestion.target_cols
    /\ suggestion' = [suggestion EXCEPT !.status = "validated",
                                        !.hallucinated = validate_mapping_output(suggestion.mappings, SourceColumns(suggestion.source_cols), TargetColumns(suggestion.target_cols)).hallucinated]
    /\ UNCHANGED << runVars, extraVars, joinVars, checkVars, mapper >>

MapNext == StartMapper \/ NoColumns \/ MatchSource \/ ReturnCandidates \/ StartSuggest \/ TableNotFound \/ SuggestTarget \/ ValidateSuggestion

MapSpec == MapInit /\ [][MapNext]_vars

\* ----------------------------------------- the guardrail and the validator
CheckInit == PathInit

\* validate_confidence_threshold(mappings) with the default thresholds
ValidateConfidence ==
    /\ CheckIdle
    /\ \E k \in 0..MaxBandMappings : \E mappings \in [1..k -> [confidence : Confidences]] :
         bands' = validate_confidence_threshold(mappings)
    /\ UNCHANGED << runVars, extraVars, joinVars, mapVars, validation >>

\* run_validator with its configuration and its tools
StartValidator ==
    /\ CheckIdle
    /\ validation' = [NoValidation EXCEPT !.status = "validating"]
    /\ UNCHANGED << runVars, extraVars, joinVars, mapVars, bands >>

\* the configuration is missing, or the tools cannot be built
ValidatorUnavailable ==
    /\ CheckIdle
    /\ validation' = [NoValidation EXCEPT !.status = "unavailable", !.overall_status = "failure"]
    /\ UNCHANGED << runVars, extraVars, joinVars, mapVars, bands >>

\* one pass of the loop over the target tables: the checks return metrics
ValidateTable ==
    /\ validation.status = "validating"
    /\ validation.t < MaxValidatedTables
    /\ \E schema \in Schemata :
         LET dq_metrics == run_checks(schema)
             table_violations == TableViolations(dq_metrics.uniqueness_violations)
         IN validation' = [validation EXCEPT !.t = validation.t + 1,
                                             !.dq_metrics = dq_metrics,
                                             !.total_violations = validation.total_violations + table_violations,
                                             !.tables_failed = IF table_violations > 0 THEN validation.tables_failed + 1 ELSE validation.tables_failed,
                                             !.tables_passed = IF table_violations > 0 THEN validation.tables_passed ELSE validation.tables_passed + 1,
                                             !.overall_status = IF table_violations > 0 THEN "failure" ELSE validation.overall_status]
    /\ UNCHANGED << runVars, extraVars, joinVars, mapVars, bands >>

\* one pass of the loop over the target tables: the checks raise
ValidateTableRaises ==
    /\ validation.status = "validating"
    /\ validation.t < MaxValidatedTables
    /\ validation' = [validation EXCEPT !.t = validation.t + 1,
                                        !.dq_metrics = ChecksRaised,
                                        !.tables_failed = validation.tables_failed + 1,
                                        !.overall_status = "failure"]
    /\ UNCHANGED << runVars, extraVars, joinVars, mapVars, bands >>

\* the confidence and the result after the last table
ReturnValidation ==
    /\ validation.status = "validating"
    /\ validation.t = MaxValidatedTables
    /\ validation' = [validation EXCEPT !.status = "returned",
                                        !.confidence = Confidence(validation.overall_status, validation.total_violations)]
    /\ UNCHANGED << runVars, extraVars, joinVars, mapVars, bands >>

CheckNext == ValidateConfidence \/ StartValidator \/ ValidatorUnavailable \/ ValidateTable \/ ValidateTableRaises \/ ReturnValidation

CheckSpec == CheckInit /\ [][CheckNext]_vars

\* --------------------------------------- the profiler and the join paths
ProfileInit == PathInit

\* run_profiler has read schema.json and starts its loop over the entities
StartProfiler ==
    /\ profile.status = "none"
    /\ profile' = [profile EXCEPT !.status = "profiling"]
    /\ UNCHANGED << runVars, mapVars, checkVars, joinVars, grouping, sessionVars, executions >>

\* one pass of the loop over the entities
ProfileEntity ==
    /\ profile.status = "profiling"
    /\ profile.i < MaxEntities
    /\ \E file \in Files : profile' = ProfileTable(profile, profile.i + 1, file)
    /\ UNCHANGED << runVars, mapVars, checkVars, joinVars, grouping, sessionVars, executions >>

\* return profile_results
ProfilerReturns ==
    /\ profile.status = "profiling"
    /\ profile.i = MaxEntities
    /\ profile' = [profile EXCEPT !.status = "returned"]
    /\ UNCHANGED << runVars, mapVars, checkVars, joinVars, grouping, sessionVars, executions >>

\* run_transform for a target table whose mappings read two profiled
\* tables: the join path from the base table to the other table, and the
\* external names of the tables on it
JoinProfiled ==
    /\ profile.status = "returned"
    /\ profile.transform = "none"
    /\ load.status = "loaded"
    /\ \E base_table \in table_to_external_map(profile.tables), end_table \in table_to_external_map(profile.tables) :
         /\ base_table # end_table
         /\ LET path == find_join_path_bfs(base_table, end_table, adj_list)
            IN /\ bfs' = [start_table |-> base_table, end_table |-> end_table, path |-> path]
               /\ profile' = [profile EXCEPT !.transform = QualifyPath(path, table_to_external_map(profile.tables))]
    /\ UNCHANGED << runVars, mapVars, checkVars, graphVars, join, statements, grouping, sessionVars, executions >>

ProfileNext == StartProfiler \/ ProfileEntity \/ ProfilerReturns \/ LoadSchema \/ JoinProfiled

ProfileSpec == ProfileInit /\ [][ProfileNext]_vars

\* --------------------------------------- the statements by target table
InsertInit == PathInit

\* run_transform is called with the approved mappings and groups them
GroupMappings ==
    /\ grouping.status = "none"
    /\ \E k \in 0..MaxMappings : \E mappings \in [1..k -> ApprovedMappings] :
         grouping' = [grouping EXCEPT !.status = "grouped", !.approved_mappings = mappings, !.target_tables = GroupByTarget(mappings, << >>)]
    /\ UNCHANGED << runVars, mapVars, checkVars, joinVars, profile, sessionVars, executions >>

\* run_transform without GCP_PROJECT_ID, BIGQUERY_DATASET or source_dataset
TransformUnconfigured ==
    /\ grouping.status = "none"
    /\ \E k \in 0..MaxMappings : \E mappings \in [1..k -> ApprovedMappings] :
         grouping' = [grouping EXCEPT !.status = "unconfigured", !.approved_mappings = mappings]
    /\ UNCHANGED << runVars, mapVars, checkVars, joinVars, profile, sessionVars, executions >>

\* one pass of the loop over target_tables.items()
GenerateStatement ==
    /\ grouping.status = "grouped"
    /\ Len(grouping.transform_sql) < Len(grouping.target_tables)
    /\ grouping' = [grouping EXCEPT !.transform_sql = Append(@, InsertStatement(grouping.target_tables[Len(grouping.transform_sql) + 1]))]
    /\ UNCHANGED << runVars, mapVars, checkVars, joinVars, profile, sessionVars, executions >>

\* return transform_sql
ReturnStatements ==
    /\ grouping.status = "grouped"
    /\ Len(grouping.transform_sql) = Len(grouping.target_tables)
    /\ grouping' = [grouping EXCEPT !.status = "returned"]
    /\ UNCHANGED << runVars, mapVars, checkVars, joinVars, profile, sessionVars, executions >>

InsertNext == GroupMappings \/ TransformUnconfigured \/ GenerateStatement \/ ReturnStatements

InsertSpec == InsertInit /\ [][InsertNext]_vars

\* ------------------------------------------- the tools as a specification
ToolInit == PathInit

\* the record of a call and of what it returned
ToolCall(tool, pair, dry_run, execution_token, result) ==
    [tool |-> tool, pair |-> pair, dry_run |-> dry_run, execution_token |-> execution_token, status |-> result.status, submitted |-> result.submitted]

\* the step was made for the pair without an error: it counts when the
\* steps before it have been made
Ran(tool, pair, result, ok) ==
    IF result.status \in ok /\ history.ran[pair] = StepOf(tool) - 1
    THEN [history EXCEPT !.calls = @ + 1, !.ran[pair] = StepOf(tool)]
    ELSE [history EXCEPT !.calls = @ + 1]

SuggestColumnMappings ==
    /\ history.calls < MaxCalls
    /\ \E pair \in Pairs, found \in BOOLEAN :
         LET result == suggest_column_mappings(session, pair[1], pair[2], found)
         IN  /\ session' = result.state
             /\ call' = ToolCall("suggest", pair, FALSE, 0, result)
             /\ history' = Ran("suggest", pair, result, {"suggested"})
    /\ UNCHANGED << runVars, mapVars, checkVars, joinVars, profile, grouping, executions >>

ApproveMappings ==
    /\ history.calls < MaxCalls
    /\ \E named \in Pairs \cup {NoPair}, decision \in Decisions :
         LET result == approve_mappings(session, named, decision)
             pair == ApprovedPair(session, named)
         IN  /\ session' = result.state
             /\ call' = ToolCall("approve", pair, FALSE, 0, result)
             /\ history' = IF result.status \in {"approved", "rejected"}
                           THEN [Ran("approve", pair, result, {"approved"}) EXCEPT !.decision[pair] = result.status]
                           ELSE [history EXCEPT !.calls = @ + 1]
    /\ UNCHANGED << runVars, mapVars, checkVars, joinVars, profile, grouping, executions >>

GenerateTransformationSql ==
    /\ history.calls < MaxCalls
    /\ \E pair \in Pairs, valid \in BOOLEAN :
         LET result == generate_transformation_sql(session, pair[1], pair[2], valid)
         IN  /\ session' = result.state
             /\ call' = ToolCall("generate", pair, FALSE, 0, result)
             /\ history' = Ran("generate", pair, result, {"generated"})
    /\ UNCHANGED << runVars, mapVars, checkVars, joinVars, profile, grouping, executions >>

ExecuteTransformation ==
    /\ history.calls < MaxCalls
    /\ \E pair \in Pairs, dry_run \in BOOLEAN :
       \E execution_token \in IF dry_run THEN {0} ELSE 0..MaxTokens, token \in IF dry_run THEN 1..MaxTokens ELSE {0}, outcome \in JobOutcomes :
         LET result == execute_transformation(session, pair[1], pair[2], dry_run, execution_token, token, outcome)
         IN  /\ session' = result.state
             /\ call' = ToolCall("execute", pair, dry_run, execution_token, result)
             /\ history' = Ran(IF dry_run THEN "dry_run" ELSE "execute", pair, result, {"validated", "executed"})
    /\ UNCHANGED << runVars, mapVars, checkVars, joinVars, profile, grouping, executions >>

ToolNext == SuggestColumnMappings \/ ApproveMappings \/ GenerateTransformationSql \/ ExecuteTransformation

ToolSpec == ToolInit /\ [][ToolNext]_vars

\* ------------------------------ the executions of one run as a specification
ConcurrentInit == PathInit

\* POST /workflow/start: the run exists, a thread with run_orchestration
\* is started; nothing looks for an execution that is already running
StartWorkflow ==
    /\ \E e \in Executions :
         /\ executions.phase[e] = "idle"
         /\ \A earlier \in 1..(e - 1) : executions.phase[earlier] # "idle"
         /\ executions' = [executions EXCEPT !.phase[e] = "staging", !.actor = e]
    /\ UNCHANGED << runVars, mapVars, checkVars, joinVars, profile, grouping, sessionVars >>

\* the next table of the staging loop: its external_table_id is registered
\* on table_info, then create_external_table deletes the table of that id
\* if it exists
StageDelete ==
    /\ \E e \in Executions :
         /\ executions.phase[e] = "staging"
         /\ executions.registered[e] # StagedTables
         /\ LET table_name == Cardinality(executions.registered[e]) + 1
            IN  executions' = [executions EXCEPT !.phase[e] = "creating",
                                                 !.registered[e] = @ \cup {table_name},
                                                 !.external[ExternalTableId(table_name, e)] = 0,
                                                 !.actor = e]
    /\ UNCHANGED << runVars, mapVars, checkVars, joinVars, profile, grouping, sessionVars >>

\* self.client.create_table(table); it raises when the table exists
StageCreate ==
    /\ \E e \in Executions :
         /\ executions.phase[e] = "creating"
         /\ LET table_name == Cardinality(executions.registered[e])
            IN  IF executions.external[ExternalTableId(table_name, e)] = 0
                THEN executions' = [executions EXCEPT !.phase[e] = IF executions.registered[e] = StagedTables THEN "staged" ELSE "staging",
                                                      !.external[ExternalTableId(table_name, e)] = e,
                                                      !.actor = e]
                ELSE executions' = [executions EXCEPT !.phase[e] = "cleanup", !.actor = e]
    /\ UNCHANGED << runVars, mapVars, checkVars, joinVars, profile, grouping, sessionVars >>

\* the stages up to the execute stage have been passed
ExecuteStage ==
    /\ \E e \in Executions :
         /\ executions.phase[e] = "staged"
         /\ executions' = [executions EXCEPT !.phase[e] = "executing", !.actor = e]
    /\ UNCHANGED << runVars, mapVars, checkVars, joinVars, profile, grouping, sessionVars >>

\* the execute stage has been passed
ExecuteFinished ==
    /\ \E e \in Executions :
         /\ executions.phase[e] = "executing"
         /\ executions' = [executions EXCEPT !.phase[e] = "executed", !.actor = e]
    /\ UNCHANGED << runVars, mapVars, checkVars, joinVars, profile, grouping, sessionVars >>

\* the stages after the execute stage return or raise: the finally clause
\* runs the cleanup
RunFinished ==
    /\ \E e \in Executions :
         /\ executions.phase[e] = "executed"
         /\ executions' = [executions EXCEPT !.phase[e] = "cleanup", !.actor = e]
    /\ UNCHANGED << runVars, mapVars, checkVars, joinVars, profile, grouping, sessionVars >>

\* a stage up to the execute stage raises: the finally clause runs the cleanup
StageRaises ==
    /\ \E e \in Executions :
         /\ executions.phase[e] \in Unfinished
         /\ executions' = [executions EXCEPT !.phase[e] = "cleanup", !.actor = e]
    /\ UNCHANGED << runVars, mapVars, checkVars, joinVars, profile, grouping, sessionVars >>

\* cleanup: delete_table(full_table_id, not_found_ok=True) for the next
\* table_info with an external_table_id
CleanupTable ==
    /\ \E e \in Executions :
         /\ executions.phase[e] = "cleanup"
         /\ executions.cleaned[e] # executions.registered[e]
         /\ LET table_name == CHOOSE t \in executions.registered[e] \ executions.cleaned[e] : \A u \in executions.registered[e] \ executions.cleaned[e] : t <= u
            IN  executions' = [executions EXCEPT !.cleaned[e] = @ \cup {table_name},
                                                 !.external[ExternalTableId(table_name, e)] = 0,
                                                 !.actor = e]
    /\ UNCHANGED << runVars, mapVars, checkVars, joinVars, profile, grouping, sessionVars >>

CleanupDone ==
    /\ \E e \in Executions :
         /\ executions.phase[e] = "cleanup"
         /\ executions.cleaned[e] = executions.registered[e]
         /\ executions' = [executions EXCEPT !.phase[e] = "done", !.actor = e]
    /\ UNCHANGED << runVars, mapVars, checkVars, joinVars, profile, grouping, sessionVars >>

ConcurrentNext == StartWorkflow \/ StageDelete \/ StageCreate \/ ExecuteStage \/ ExecuteFinished \/ RunFinished \/ StageRaises \/ CleanupTable \/ CleanupDone

ConcurrentSpec == ConcurrentInit /\ [][ConcurrentNext]_vars

\* ------------------------------------------------------------- the claims
\* run_orchestration has returned or re-raised to its caller
Returned == pc.blk \in {"wrapper", "done"}

\* the except block (if it was entered) is over
AfterExcept == pc.blk \in {"finally", "wrapper", "done"}

PastInit == envOk /\ clientsOk

StageOrder == << "download", "profiler", "staging", "mapper", "hitl", "create_tables", "transform", "execute", "validator", "publish", "feedback" >>

StageIndex(s) == CHOOSE i \in 1..Len(StageOrder) : StageOrder[i] = s

CriticalStages == {"profiler", "staging", "mapper", "hitl", "create_tables", "transform", "execute", "validator"}

Emitted(chan, type, step, status) == \E i \in 1..Len(emitted) : emitted[i].chan = chan /\ emitted[i].type = type /\ emitted[i].step = step /\ emitted[i].status = status

InStarted(step) == \E i \in 1..Len(started) : started[i] = step

\* C1: every execution that got past configuration loading and client
\* initialisation has run the cleanup step exactly once when it returns or
\* re-raises, whether every stage succeeded or a stage raised; cleanup never
\* runs twice and never runs while the stages or the except block still run.
C1_CleanupExactlyOnce ==
    /\ cleanupRuns <= 1
    /\ (Returned /\ PastInit) => cleanupRuns = 1
    /\ pc.blk \in {"try", "except"} => cleanupRuns = 0

C1_Witness == pc.blk = "wrapper" /\ failedAt = "mapper" /\ cleanupRuns = 1 /\ raisedToCaller

\* C2: if a stage from profiling through validation raises, no later stage
\* other than cleanup is started, mark_run_complete is never called, and once
\* the except block is over the workflow_error event has been broadcast and
\* mark_run_failed has been called, leaving the persisted status failed
\* unless a write to the store was lost.
C2_StageFailureFailsRun ==
    failedAt \in CriticalStages =>
        /\ \A i \in 1..Len(started) : started[i] = "cleanup" \/ StageIndex(started[i]) <= StageIndex(failedAt)
        /\ calls.complete = 0
        /\ record.current_step # "completed"
        /\ (AfterExcept /\ websocket_manager) => Emitted("ws", "workflow_error", "error", "failed")
        /\ (AfterExcept /\ state_store) => (calls.failed >= 1 /\ (record.status = "failed" \/ drops > 0))

C2_Witness == Done /\ failedAt = "execute" /\ record.status = "failed" /\ executed_count = 1 /\ InStarted("cleanup") /\ drops = 0

\* C3: when an execution ends, cleanup has issued a delete for every external
\* table registered during staging (also the one whose creation raised), and
\* has attempted to remove the temp directory it created in GCS mode; a
\* failed delete neither stops the remaining deletes nor changes whether the
\* run raises to its caller.
C3_CleanupReleasesAll ==
    (Returned /\ PastInit) =>
        /\ deleteIssued = registered
        /\ temp_dir # "none" => rmtreeIssued
        /\ raisedToCaller <=> (failedAt # "none")

C3_Witness == Done /\ mode = "gcs" /\ staged_tables = 1 /\ registered = {1, 2} /\ deleteFailed = {1} /\ deleteIssued = {1, 2} /\ rmtreeIssued /\ failedAt = "staging"

\* C4: once the persisted status of the run record is completed or failed,
\* no later write changes the status field.
C4_StatusTerminal == [][record.status \in {"completed", "failed"} => record'.status = record.status]_vars

\* C5: the progress values of the successive records a run emits (state-store
\* updates and broadcast events, the failure event and the cleanup events
\* included) never decrease.
C5_ProgressMonotone == \A i \in 1..(Len(emitted) - 1) : emitted[i].progress <= emitted[i + 1].progress

\* C6: when the worker thread of a run started through the API has ended and
\* no write to the store was lost, the persisted status is completed or failed.
C6_EveryRunTerminal == (Done /\ caller = "api" /\ drops = 0) => record.status \in {"completed", "failed"}

\* C7: a run whose feedback step raised has no failed stage and raises nothing
\* to its caller; when it returns, the feedback-completed and
\* workflow_complete events have been broadcast and mark_run_complete has been
\* called once, leaving the persisted status completed unless a write to the
\* store was lost.
C7_FeedbackNonCritical ==
    feedback_failed =>
        /\ failedAt = "none" /\ exc = NoError /\ ~raisedToCaller
        /\ pc.blk # "except"
        /\ (Returned /\ websocket_manager) => (Emitted("ws", "workflow_update", "feedback", "completed") /\ Emitted("ws", "workflow_complete", "completed", "success"))
        /\ (Returned /\ state_store) => (Emitted("store", "", "feedback", "completed") /\ calls.complete = 1 /\ (record.status = "completed" \/ drops > 0))

C7_Witness == Done /\ feedback_failed /\ record.status = "completed" /\ calls.complete = 1 /\ drops = 0

\* the mappings the reviewers approved: the ones the run retrieved and the
\* ones whose approval found no stored document
RefApproved == approved_mappings \cup lost_approvals

\* C8: whatever broadcasts and store writes failed, a run that reached the
\* execute stage fails there exactly when run_query raises on one of the
\* statements of the mappings the reviewers approved, as it does in the same
\* run with no such failure.
C8_OutcomeUnaffected ==
    (Returned /\ InStarted("execute")) => ((failedAt = "execute") <=> (plan \in 1..StatementCount(RefApproved)))

\* C9: no send to a subscriber keeps the worker thread from its next
\* instruction.
C9_SendsNeverBlock == pc.blk # "blocked"

\* C10: after a run failed in stage S and its except block is over, the run
\* record has the error message of the raised exception if it has status
\* failed, current_step S if the last update_workflow_step write was
\* delivered, and status failed, that error and current_step S if no write
\* to the store was lost.
C10_FailureRecord ==
    (failedAt # "none" /\ state_store /\ AfterExcept) =>
        /\ exc = ErrorOf(failedAt)
        /\ record.status = "failed" => record.error = exc
        /\ lastUpdateOk => record.current_step = failedAt
        /\ drops = 0 => (record.status = "failed" /\ record.error = exc /\ record.current_step = failedAt)

C10_Witness == Done /\ failedAt = "transform" /\ record.status = "failed" /\ record.error = ErrorOf("transform") /\ record.current_step = "transform" /\ record.progress = 70

\* a required setting or the source schema file is missing
ConfigurationMissing == ~envOk \/ schema_file = "missing"

\* C11: a run whose required settings or source schema file are missing
\* starts no stage, broadcasts no step event and writes no step update.
C11_NoPartialRun == ConfigurationMissing => (started = << >> /\ emitted = << >>)

\* the stages in the order the claim fixes, after the download stage of GCS mode
FixedOrder == IF mode = "gcs" THEN StageOrder ELSE Tail(StageOrder)

\* the stages started so far, without the cleanup that ends the run
StartedStages == IF started # << >> /\ started[Len(started)] = "cleanup" THEN SubSeq(started, 1, Len(started) - 1) ELSE started

\* C12: the stages of a run start in the fixed order profiler, staging,
\* mapper, hitl, create_tables, transform, execute, validator, publish,
\* feedback (after the download stage in GCS mode), cleanup starts last, and
\* a stage starts only when the stage before it has completed: its completed
\* event has been broadcast and no stage has failed.
C12_StageOrder ==
    /\ Len(StartedStages) <= Len(FixedOrder)
    /\ \A i \in 1..Len(StartedStages) : StartedStages[i] = FixedOrder[i]
    /\ (pc.blk = "try" /\ started # << >>) => failedAt = "none"
    /\ websocket_manager => \A i \in 2..Len(StartedStages) : Emitted("ws", "workflow_update", StartedStages[i - 1], "completed")
    /\ (Returned /\ PastInit /\ failedAt = "none") => started = FixedOrder \o << "cleanup" >>

C12_Witness == Done /\ mode = "local" /\ caller = "api" /\ enable_hitl /\ failedAt = "none" /\ started = Tail(StageOrder) \o << "cleanup" >>

Vocabulary == {"profiler", "staging", "mapper", "hitl", "create_tables", "transform", "execute", "validator", "publish", "feedback", "cleanup"}

\* C13: every step name carried by a broadcast event or by a step update, and
\* the current_step of the run record once a step has been written, is one
\* of profiler, staging, mapper, hitl, create_tables, transform, execute,
\* validator, publish, feedback, cleanup.
C13_StepVocabulary ==
    /\ \A i \in 1..Len(emitted) : emitted[i].step \in Vocabulary
    /\ record.current_step \in Vocabulary \cup {CreateRun.current_step}

\* the step in which _wait_for_web_approvals reads the approved documents
\* and returns
RetrieveStep == hitl_phase = "retrieving" /\ hitl_phase' = "done"

\* the step is taken without a failure of the store
NoStoreFailure == drops' = drops

\* C14: the list the web approval wait returns holds only stored mappings of
\* the run whose status is approved when it is read, and every such mapping
\* when the read succeeds; no pending or rejected mapping is returned.
C14_OnlyApprovedReturned ==
    [][RetrieveStep =>
          /\ approved_mappings' \subseteq { m \in DOMAIN hitlDocs : hitlDocs[m] = "approved" }
          /\ \A m \in DOMAIN hitlDocs : hitlDocs[m] \in {"pending", "rejected"} => m \notin approved_mappings'
          /\ NoStoreFailure => approved_mappings' = { m \in DOMAIN hitlDocs : hitlDocs[m] = "approved" }]_vars

C14_Witness == hitl_phase = "done" /\ hitl_store /\ drops = 0 /\ candidates = {0, 1} /\ approved_mappings = {1} /\ InStarted("transform") /\ transform_sql = 1

\* C15: when the approval timeout has elapsed while a stored mapping is still
\* pending, the wait returns without raising, the run goes on with the
\* instruction after run_hitl in the try block (the block whose next stage is
\* create_tables) and is not failed, and the mappings returned are exactly
\* those whose document is approved at that moment (given that the read of
\* the documents itself succeeds)
TimedOutWithPending == elapsed_time >= timeout /\ \E m \in DOMAIN hitlDocs : hitlDocs[m] = "pending"

NextStageAfter(i) == LET later == { j \in (i + 1)..Len(Program) : Program[j].op = "step_start" } IN Program[CHOOSE j \in later : \A k \in later : j <= k].step

C15_TimeoutProceeds ==
    [][(RetrieveStep /\ TimedOutWithPending) =>
         /\ exc' = NoError /\ failedAt' = "none" /\ ~raisedToCaller'
         /\ pc' = At("try", pc.i + 1)
         /\ NextStageAfter(pc.i) = "create_tables"
         /\ record'.status # "failed"
         /\ (NoStoreFailure => approved_mappings' = { m \in DOMAIN hitlDocs : hitlDocs[m] = "approved" })]_vars

\* the wait has left its loop on the timeout with mapping 1 approved and
\* mapping 0 still pending, and is about to read the approved documents
C15_Witness == hitl_phase = "retrieving" /\ elapsed_time >= timeout /\ hitl_store /\ drops = 0 /\ DOMAIN hitlDocs = {0, 1} /\ hitlDocs[0] = "pending" /\ hitlDocs[1] = "approved"

\* C16: the polling wait is bounded and leaves its loop at once when nothing
\* is pending: whatever the reviewers do in between, every poll of the store
\* is at most the ceil(timeout / poll_interval)-th one, a poll that finds no
\* pending mapping ends the loop without another sleep, and once the timeout
\* has elapsed the loop ends without a further poll
CeilDiv(a, b) == (a + b - 1) \div b

LoopStep == Cur.op = "run_hitl" /\ hitl_phase \in {"idle", "polling"} /\ (hitl_phase' = "retrieving" \/ elapsed_time' # elapsed_time)

PollNumber == (elapsed_time \div poll_interval) + 1

NonePending == \A m \in DOMAIN hitlDocs : hitlDocs[m] # "pending"

C16_WaitBounded ==
    [][LoopStep =>
         /\ elapsed_time < timeout => PollNumber <= CeilDiv(timeout, poll_interval)
         /\ elapsed_time >= timeout => (hitl_phase' = "retrieving" /\ elapsed_time' = elapsed_time /\ drops' = drops)
         /\ NonePending => (hitl_phase' = "retrieving" /\ elapsed_time' = elapsed_time)
         /\ hitl_phase' = "polling" => (elapsed_time' = elapsed_time + poll_interval /\ elapsed_time' <= timeout + poll_interval - 1)
         /\ elapsed_time % poll_interval = 0]_vars

\* the wait has left its loop after one sleep, before the timeout, because
\* the reviewers had by then approved mapping 0 and rejected mapping 1
C16_Witness == hitl_phase = "retrieving" /\ elapsed_time = poll_interval /\ elapsed_time < timeout /\ hitl_store /\ drops = 0 /\ DOMAIN hitlDocs = {0, 1} /\ hitlDocs[0] = "approved" /\ hitlDocs[1] = "rejected"

\* C17: a stored mapping whose status is approved or rejected keeps that
\* status: no step changes the status of a document that is already decided,
\* as long as the document is there.
C17_DecisionsFinal ==
    [][\A m \in DOMAIN hitlDocs \cap DOMAIN hitlDocs' :
         hitlDocs[m] \in {"approved", "rejected"} => hitlDocs'[m] = hitlDocs[m]]_vars

\* the paths between two tables by exhaustive enumeration: every sequence of
\* distinct tables from a to b whose consecutive tables are joined by an edge
\* (a walk that repeats a table contains such a path with fewer edges)
IsEdge(adj, a, b) == \E i \in 1..Len(adj[a]) : adj[a][i].target = b

SimpleSeqs == UNION { { p \in [1..k -> Tables] : \A i, j \in 1..k : i # j => p[i] # p[j] } : k \in 1..MaxEntities }

PathsBetween(adj, a, b) == { p \in SimpleSeqs : p[1] = a /\ p[Len(p)] = b /\ \A i \in 1..(Len(p) - 1) : IsEdge(adj, p[i], p[i + 1]) }

Called == load.status = "loaded" /\ bfs.start_table \in Tables

\* C18: a path returned by find_join_path_bfs has at most as many edges as
\* every path between the two tables found by exhaustive enumeration
C18_ShortestPath ==
    (Called /\ bfs.path # NoPath) => \A p \in PathsBetween(adj_list, bfs.start_table, bfs.end_table) : Len(bfs.path) - 1 <= Len(p) - 1

\* in a triangle of foreign keys the call from table 1 to table 3 returned
\* the direct edge although the path over table 2 exists as well
C18_Witness == Called /\ bfs.start_table = 1 /\ bfs.end_table = 3 /\ bfs.path = << 1, 3 >> /\ << 1, 2, 3 >> \in PathsBetween(adj_list, 1, 3) /\ adj_list[1][1].target = 2

\* C19: a returned path starts at the start table, ends at the end table,
\* holds no table twice and steps along edges of the graph only; no path is
\* returned exactly when the end table cannot be reached from the start table
C19_PathWellFormed ==
    Called =>
      /\ bfs.path # NoPath =>
           /\ bfs.path[1] = bfs.start_table
           /\ bfs.path[Len(bfs.path)] = bfs.end_table
           /\ \A i, j \in 1..Len(bfs.path) : i # j => bfs.path[i] # bfs.path[j]
           /\ \A i \in 1..(Len(bfs.path) - 1) : IsEdge(adj_list, bfs.path[i], bfs.path[i + 1])
      /\ (bfs.path = NoPath) <=> (PathsBetween(adj_list, bfs.start_table, bfs.end_table) = {})

\* a call that returned a path of two edges along a chain of foreign keys
C19_Witness == Called /\ Len(bfs.path) = 3 /\ bfs.path[1] = bfs.start_table /\ bfs.path[3] = bfs.end_table /\ ~IsEdge(adj_list, bfs.start_table, bfs.end_table)

\* the number of edges of the shortest path from the joined tables to t
JoinDistance(t) == LET shortest == ShortestPaths(join.joined_tables, t, adj_list) IN Len(CHOOSE path \in shortest : TRUE) - 1

Joinable(t) == ShortestPaths(join.joined_tables, t, adj_list) # {}

JoinStep == join.phase = "resolving" /\ join'.phase = "resolving" /\ join'.tables_to_join # join.tables_to_join

\* C20: the table joined by a step of the join-set resolution is a required
\* table not yet joined whose shortest path to the joined tables is no longer
\* than that of any other required table not yet joined; the clauses of that
\* path are appended to the join clauses and its tables become joined
C20_GreedyJoin ==
    [][JoinStep =>
         \E end_table \in join.tables_to_join :
           /\ join'.tables_to_join = join.tables_to_join \ {end_table}
           /\ \A other \in join.tables_to_join : Joinable(other) => JoinDistance(end_table) <= JoinDistance(other)
           /\ \E path \in ShortestPaths(join.joined_tables, end_table, adj_list) :
                /\ join'.join_clauses = join.join_clauses \o PathClauses(path, adj_list)
                /\ join'.joined_tables = join.joined_tables \cup PathTables(path)]_vars

\* the graph of the chain a <- b <- c: b.a_id references a.id and c.b_id
\* references b.id, and no other foreign key
IsChain(a, b, c) ==
    /\ load.status = "loaded"
    /\ adj_list[a] = << [target |-> b, column |-> << 0, "id" >>, references_column |-> << a, "id" >>] >>
    /\ Len(adj_list[b]) = 2
    /\ { adj_list[b][i] : i \in 1..2 } = { [target |-> a, column |-> << a, "id" >>, references_column |-> << 0, "id" >>], [target |-> c, column |-> << 0, "id" >>, references_column |-> << b, "id" >>] }
    /\ adj_list[c] = << [target |-> b, column |-> << b, "id" >>, references_column |-> << 0, "id" >>] >>
    /\ \A t \in Tables \ {a, b, c} : adj_list[t] = << >>

\* JOIN b ON a.id = b.a_id, then JOIN c ON b.id = c.b_id
ChainClauses(a, b, c) == << [join |-> b, left |-> << a, << 0, "id" >> >>, right |-> << b, << a, "id" >> >>], [join |-> c, left |-> << b, << 0, "id" >> >>, right |-> << c, << b, "id" >> >>] >>

\* C21: on a chain a <- b <- c with base table a and required tables b and
\* c, the resolution ends with exactly the clauses JOIN b ON a.id = b.a_id
\* and JOIN c ON b.id = c.b_id, whichever of b and c was considered first
C21_ChainClauses ==
    \A a, b, c \in Tables :
      (IsChain(a, b, c) /\ join.phase = "done" /\ join.source_tables = {a, b, c} /\ join.base_table = a /\ a # b /\ b # c /\ a # c)
        => join.join_clauses = ChainClauses(a, b, c)

\* on the chain 1 <- 2 <- 3 table 3 was considered first and joined over
\* table 2, which is still to be considered
C21_Witness == IsChain(1, 2, 3) /\ join.phase = "resolving" /\ join.base_table = 1 /\ join.source_tables = {1, 2, 3} /\ join.round = {2} /\ join.tables_to_join = {2} /\ join.join_clauses = ChainClauses(1, 2, 3)

\* whether required table t can be reached from the base table, by
\* exhaustive enumeration of the paths
Reachable(t) == PathsBetween(adj_list, join.base_table, t) # {}

EmitStep == join.phase \in {"done", "fallback"} /\ join'.phase = "emitted"

C23_SymmetricGraph ==
    load.status = "loaded" =>
      /\ \A t1 \in Tables : \A i \in 1..Len(adj_list[t1]) :
           LET edge == adj_list[t1][i]
           IN  \E j \in 1..Len(adj_list[edge.target]) :
                 adj_list[edge.target][j] = [target |-> t1, column |-> edge.references_column, references_column |-> edge.column]
      /\ \A x, y \in Tables : (find_join_path_bfs(x, y, adj_list) # NoPath) <=> (find_join_path_bfs(y, x, adj_list) # NoPath)

\* table 2 references table 1 and table 3 references table 2; the call from
\* table 3 to table 1 went along the backward edges
C23_Witness == Called /\ bfs.start_table = 1 /\ bfs.end_table = 3 /\ bfs.path = << 1, 2, 3 >> /\ adj_list[1] = << [target |-> 2, column |-> << 0, "id" >>, references_column |-> << 1, "id" >>] >> /\ adj_list[3] = << [target |-> 2, column |-> << 2, "id" >>, references_column |-> << 0, "id" >>] >>

\* C24: when a foreign key of the schema references a table that is no
\* declared entity, building the graph raises: no graph is there, the raise
\* leaves run_transform, and no join path is ever computed; a graph that was
\* built has no such reference
C24_UndeclaredReferenceRaises ==
    /\ load.undeclared => (load.status = "raised" /\ adj_list = NoGraph /\ bfs = NoCall /\ join = NoJoin)
    /\ load.status = "loaded" => ~load.undeclared

\* the schema had a foreign key to an undeclared table and the load raised
C24_Witness == load.undeclared /\ load.status = "raised"


\* the candidates that run_mapper has appended for its last source column
EmittedForLast == { k \in 1..Len(mapper.mapping_candidates) : mapper.mapping_candidates[k].source_column = << "source", mapper.i >> }

\* C25: for each source column, run_mapper emits a candidate iff the
\* maximum similarity over the target columns is strictly greater than 0.9
\* (a maximum equal to 0.9 emits nothing); the candidate's target is the
\* first target column in list order that attains the maximum, and the
\* scores 0.95, 0.85, 0.50 give exactly one candidate
C25_BestAboveThreshold ==
    (mapper.status \in {"matching", "returned"} /\ mapper.i >= 1) =>
        LET row == mapper.similarities
            maximum == CHOOSE x \in { row[j] : j \in 1..Len(row) } : \A j \in 1..Len(row) : row[j] <= x
            first == CHOOSE j \in 1..Len(row) : row[j] = maximum /\ \A k \in 1..(j - 1) : row[k] # maximum
        IN /\ (EmittedForLast # {}) <=> (maximum > 90)
           /\ Cardinality(EmittedForLast) <= 1
           /\ \A k \in EmittedForLast :
                /\ mapper.mapping_candidates[k].target_column = << "target", first >>
                /\ mapper.mapping_candidates[k].confidence = maximum
           /\ row = << 95, 85, 50 >> => Cardinality(EmittedForLast) = 1

C25_Witness ==
    /\ mapper.status = "returned"
    /\ mapper.i = 1
    /\ mapper.similarities = << 95, 85, 50 >>
    /\ mapper.mapping_candidates = << [source_column |-> << "source", 1 >>, target_column |-> << "target", 1 >>, confidence |-> 95] >>

\* C26: in the candidate list returned by run_mapper no two candidates
\* share the same target column
C26_OneCandidatePerTarget ==
    mapper.status = "returned" =>
        \A k1, k2 \in 1..Len(mapper.mapping_candidates) :
            mapper.mapping_candidates[k1].target_column = mapper.mapping_candidates[k2].target_column => k1 = k2

\* C27: every candidate of run_mapper and every entry of
\* suggest_column_mappings with a source column names a source column of
\* the source schema's declared columns and a target column of the target
\* schema's declared columns, and validate_mapping_output reports no
\* hallucinated column for them
C27_NoHallucination ==
    /\ \A k \in 1..Len(mapper.mapping_candidates) :
         /\ mapper.mapping_candidates[k].source_column \in { << "source", i >> : i \in 1..mapper.source_columns }
         /\ mapper.mapping_candidates[k].target_column \in { << "target", j >> : j \in 1..mapper.target_columns }
    /\ validate_mapping_output(mapper.mapping_candidates, SourceColumns(mapper.source_columns), TargetColumns(mapper.target_columns)).is_valid
    /\ \A k \in 1..Len(suggestion.mappings) :
         suggestion.mappings[k].source_column # NoColumn =>
             /\ suggestion.mappings[k].source_column \in { << "source", i >> : i \in 1..suggestion.source_cols }
             /\ suggestion.mappings[k].target_column \in { << "target", j >> : j \in 1..suggestion.target_cols }
    /\ suggestion.status = "validated" => suggestion.hallucinated = << >>

C27_Witness ==
    /\ mapper.status = "returned"
    /\ mapper.source_columns = 2
    /\ mapper.target_columns = 1
    /\ Len(mapper.mapping_candidates) = 2

\* the other engine's case of C27: a validated suggestion with a mapped and
\* an unmapped target column
SuggestionValidated ==
    /\ suggestion.status = "validated"
    /\ \E k \in 1..Len(suggestion.mappings) : suggestion.mappings[k].status = "suggested"
    /\ \E k \in 1..Len(suggestion.mappings) : suggestion.mappings[k].status = "unmapped"

\* C28: with the default thresholds every mapping is in exactly one band:
\* auto-approved iff its confidence is at least 0.8, requires-review iff it
\* is at least 0.5 and below 0.8, rejected iff it is below 0.5
C28_ConfidenceBands ==
    bands.status = "returned" =>
        /\ Len(bands.auto_approved) + Len(bands.requires_review) + Len(bands.rejected) = Len(bands.mappings)
        /\ \A k \in 1..Len(bands.auto_approved) : bands.auto_approved[k].confidence >= 80
        /\ \A k \in 1..Len(bands.requires_review) : bands.requires_review[k].confidence >= 50 /\ bands.requires_review[k].confidence < 80
        /\ \A k \in 1..Len(bands.rejected) : bands.rejected[k].confidence < 50

\* C29: the confidence returned by run_validator is 1.0 iff there is no
\* uniqueness violation in total; otherwise it is
\* max(0.3, 1.0 - 0.1 * total_violations), which falls with every further
\* violation until it reaches 0.3 and is never below 0.3
C29_ValidationConfidence ==
    validation.status = "returned" =>
        LET total == validation.total_violations
            linear == 100 - 10 * total
        IN /\ (validation.confidence = 100) <=> (total = 0)
           /\ total > 0 => validation.confidence = (IF linear > 30 THEN linear ELSE 30)
           /\ validation.confidence >= 30

C29_Witness ==
    /\ validation.status = "returned"
    /\ validation.total_violations = 8
    /\ validation.confidence = 30

\* C30: the overall status returned by run_validator is success iff every
\* validated table has zero uniqueness violations, and failure otherwise
C30_StatusIffNoViolations ==
    validation.status = "returned" =>
        /\ validation.overall_status \in {"success", "failure"}
        /\ (validation.overall_status = "success") <=> (validation.total_violations = 0)


\* C31: a validation result with status failure does not fail the run: no
\* stage fails and nothing is raised to the caller; the run goes on through
\* publish and feedback, mark_run_complete is called once, and the run
\* record has status completed and holds the validation result (as the
\* validator step's data and as the results) unless a write to the store
\* was lost
C31_ValidationFailureNotFatal ==
    validation_results = "failure" =>
        /\ failedAt = "none" /\ exc = NoError /\ ~raisedToCaller
        /\ pc.blk # "except"
        /\ Returned => (InStarted("publish") /\ InStarted("feedback"))
        /\ (Returned /\ state_store) =>
             /\ calls.complete = 1 /\ calls.failed = 0
             /\ drops = 0 => (record.status = "completed" /\ record.results = "failure" /\ record.step_data_validator = "failure")

C31_Witness == Done /\ validation_results = "failure" /\ record.status = "completed" /\ record.results = "failure" /\ record.step_data_validator = "failure" /\ InStarted("feedback")


\* the entities that run_profiler left out of its result
SkippedTables == { t \in 1..profile.i : \A k \in 1..Len(profile.tables) : profile.tables[k] # t }

\* C32: when a declared table has no data file, profiling skips it (the
\* table is absent from the profile result and counted as skipped) and does
\* not raise, and the later stages do not fail because of it: run_transform
\* raises nothing when every file of the run can be read or is missing
C32_SkipNotFatal ==
    /\ profile.tables_skipped = Cardinality(SkippedTables)
    /\ profile.status = "returned" => profile.i = MaxEntities
    /\ profile.tables_skipped >= 1 => profile.transform # "KeyError"


\* the approved mappings of a target table, in the order of the list
MappingsOf(tt) == SelectSeq(grouping.approved_mappings, LAMBDA m : m.target_column[1] = tt)

JoinedBy(k) == join.join_clauses[k].join

\* C38: in a statement whose join resolution ended without the cross join,
\* every required source table is the base table or the joined table of
\* exactly one JOIN clause, no table is the joined table of two JOIN
\* clauses, the base table is the joined table of none, and the left-hand
\* table of every JOIN condition is the base table or the joined table of
\* an earlier JOIN clause
C38_EachTableOnce ==
    join.phase = "done" =>
      LET n == Len(join.join_clauses)
      IN /\ \A t \in join.source_tables \ {join.base_table} : Cardinality({ k \in 1..n : JoinedBy(k) = t }) = 1
         /\ join.base_table \in join.source_tables
         /\ join.from_clause = {join.base_table}
         /\ \A k, l \in 1..n : JoinedBy(k) = JoinedBy(l) => k = l
         /\ \A k \in 1..n : JoinedBy(k) # join.base_table
         /\ \A k \in 1..n : join.join_clauses[k].left[1] = join.base_table \/ \E l \in 1..(k - 1) : JoinedBy(l) = join.join_clauses[k].left[1]
         /\ \A k \in 1..n : join.join_clauses[k].right[1] = JoinedBy(k)

\* tables 1 and 3 are required, table 3 was joined over table 2, which is
\* not required, and the resolution ended with two JOIN clauses
C38_Witness == join.phase = "done" /\ join.base_table = 1 /\ join.source_tables = {1, 3} /\ Len(join.join_clauses) = 2 /\ JoinedBy(1) = 2 /\ JoinedBy(2) = 3

\* what is left of the loop: the unjoined tables, the rest of the pass, and
\* the pass that has already joined a table
LoopMeasure(j) == Cardinality(j.tables_to_join) * (Cardinality(Tables) + 1) + Cardinality(j.round) + (IF j.path_found THEN Cardinality(Tables) + 1 ELSE 0)

JoinLoopStep == join.phase = "resolving" /\ join' # join

\* C39: the join-resolution loop terminates: every step of the loop leaves
\* it or makes what is left of it smaller, a pass that joined no table is
\* followed by the cross join and a pass that starts another has joined a
\* table, and the number of passes is at most the number of required
\* tables plus one
C39_LoopTerminates ==
    [][/\ JoinLoopStep => (join'.phase # "resolving" \/ LoopMeasure(join') < LoopMeasure(join))
       /\ (JoinLoopStep /\ join.round = {} /\ ~join.path_found) => join'.phase = "fallback"
       /\ (JoinLoopStep /\ join'.passes > join.passes) => Cardinality(join'.tables_to_join) < Cardinality(join.source_tables) - join.passes
       /\ join'.passes <= Cardinality(join'.source_tables) + 1]_vars

\* the first pass joined table 2 and found no path to table 3, the second
\* pass joined nothing and the loop ended with the cross join
C39_Witness == join.phase = "fallback" /\ join.passes = 2 /\ join.source_tables = {1, 2, 3} /\ join.base_table = 1 /\ join.joined_tables = {1, 2} /\ join.tables_to_join = {3}


\* C34: a query job that is not a dry run is submitted by
\* execute_transformation only when the presented execution token is the
\* one the session holds for the pair, issued by its latest dry run and not
\* yet consumed; with a missing or wrong token none is submitted
C34_TokenBeforeJob ==
    [][(call'.tool = "execute" /\ call'.submitted = "query") =>
         LET expected == session.execution_tokens[MappingKey(call'.pair[1], call'.pair[2])]
         IN  expected # 0 /\ call'.execution_token = expected]_vars


\* the key under which the session keeps what the called tool needs
CalledKey == MappingKey(call'.pair[1], call'.pair[2])

\* C35: a confirmed execution for a pair returns "executed" only after
\* suggest_column_mappings, approve_mappings with an approve decision,
\* generate_transformation_sql and a dry run have been made for that pair
\* in this order, each of these steps succeeds only after the ones before
\* it, and a tool whose predecessor's state for the pair is absent returns
\* an error and leaves the session state as it is
C35_StepsInOrder ==
    [][/\ call'.status = "approved" => history.ran[call'.pair] >= 1
       /\ call'.status = "generated" => history.ran[call'.pair] >= 2
       /\ call'.status = "validated" => history.ran[call'.pair] >= 3
       /\ call'.status = "executed" => history.ran[call'.pair] >= 4
       /\ (call'.tool = "approve" /\ call'.pair # NoPair /\ CalledKey \notin session.suggested_mappings) => (call'.status = "error" /\ session' = session)
       /\ (call'.tool = "generate" /\ CalledKey \notin session.approved_mappings) => (call'.status = "no_approved_mappings" /\ session' = session)
       /\ (call'.tool = "execute" /\ CalledKey \notin session.generated_sql) => (call'.status = "error" /\ session' = session)
       /\ (call'.tool = "execute" /\ ~call'.dry_run /\ CalledKey \in session.generated_sql /\ session.execution_tokens[CalledKey] = 0) => (call'.status \in {"blocked", "error"} /\ session' = session)]_vars

\* C40: a pair is never in both the approved and the rejected mappings of
\* the session, and when the last decision approve_mappings recorded for a
\* pair is the rejection, generate_transformation_sql for that pair
\* returns the error that there are no approved mappings
C40_RejectRevokes ==
    /\ session.approved_mappings \cap session.rejected_mappings = {}
    /\ (call.tool = "generate" /\ history.decision[call.pair] = "rejected") => call.status = "no_approved_mappings"


\* the wait leaves its loop while the timeout has not elapsed
LeavesEarly == Cur.op = "run_hitl" /\ hitl_phase \in {"idle", "polling"} /\ hitl_phase' = "retrieving" /\ elapsed_time < timeout

\* C36: _wait_for_web_approvals leaves its loop before the timeout only
\* when the mappings of the run are stored and every one of them has the
\* status approved or rejected: a read that fails and a store that holds no
\* mapping of the run do not count as all mappings reviewed
C36_LeavesOnlyWhenReviewed ==
    [][LeavesEarly =>
         /\ DOMAIN hitlDocs # {}
         /\ \A m \in DOMAIN hitlDocs : hitlDocs[m] \in {"approved", "rejected"}]_vars


\* C37: two executions started for the same run do not interfere: an
\* external table that an execution has staged and that is in the dataset
\* is not deleted or replaced by a step of another execution while the
\* execute stage of the first has not finished
C37_NoInterference ==
    [][\A t \in StagedTables :
         LET owner == executions.external[t]
         IN  (owner # 0 /\ executions.phase[owner] \in Unfinished /\ executions'.external[t] # owner) => executions'.actor = owner]_vars

====
